---- MODULE Spec2Model ----
(***************************************************************************)
(* Model of the Binary Ninja MCP bridge (bridge/src/index.ts, tools.ts,    *)
(* client.ts): process start-up (parseArgs), the HTTP client               *)
(* (BinjaHttpClient) and the tool handlers registered by registerTools.    *)
(*                                                                         *)
(* Strings are sequences of atoms.  An identifier or a command-line token  *)
(* is a sequence of one-character atoms; a message is a sequence of        *)
(* literal pieces; the atom "\n" is the newline character and no other     *)
(* atom contains one.  JavaScript values are tagged records.               *)
(***************************************************************************)
EXTENDS Integers, Sequences, FiniteSets, TLC

VARIABLES
  stage,     \* "boot" | "serving" | "exited": position of main()
  argv,      \* process.argv.slice(2)
  env,       \* process.env: [host, port], each a string value or undefined
  config,    \* { host, port } handed to createClient
  op,        \* tool (or client method) being run, "none" when idle
  args,      \* its argument bag
  pc,        \* position of the handler
  locals,    \* the handler's local variables
  pending,   \* the request in flight, or NoRequest
  response,  \* the outcome of the latest request, NoOutcome while in flight
  sent,      \* the requests this invocation has issued, in order
  fetched,   \* list_all_strings: what getJson returned for each page, in order
  payload,   \* content[0].text of the handler's result, or NoPayload
  ret,       \* completion of a direct client call, or NoRet
  received,  \* the outcomes this invocation has been given, where logged
  other      \* a second invocation, suspended at an await

vars == <<stage, argv, env, config, op, args, pc, locals, pending, response,
          sent, fetched, payload, ret, received, other>>

(***************************************************************************)
(* Bounds of the model.                                                    *)
(***************************************************************************)
MaxIdLen == 3
MaxArgs == 3
MaxJsonLen == 3
MaxPage == 3
MaxFetches == 4
MaxData == 2

(***************************************************************************)
(* JavaScript values.                                                      *)
(***************************************************************************)
Undef == [t |-> "undefined"]
Null == [t |-> "null"]
NaN == [t |-> "nan"]
Str(s) == [t |-> "string", v |-> s]
Num(n) == [t |-> "number", v |-> n]
Bool(b) == [t |-> "boolean", v |-> b]
Arr(a) == [t |-> "array", v |-> a]
Obj(f) == [t |-> "object", v |-> f]
EmptyObj == Obj(<<>>)

\* ToBoolean: falsy are undefined, null, NaN, 0, "" and false
Truthy(v) ==
  CASE v.t \in {"undefined", "null", "nan"} -> FALSE
    [] v.t = "string" -> v.v # <<>>
    [] v.t = "number" -> v.v # 0
    [] v.t = "boolean" -> v.v
    [] OTHER -> TRUE

\* a || b
OrElse(a, b) == IF Truthy(a) THEN a ELSE b

\* typeof v === "object" (true of null, arrays and objects)
TypeofObject(v) == v.t \in {"null", "array", "object"}

\* `key in v` raises TypeError unless v is an object (arrays included)
InThrows(v) == v.t \notin {"array", "object"}

\* `key in v` for a non-numeric key other than "length"
In(key, v) == v.t = "object" /\ key \in DOMAIN v.v

\* v.key raises TypeError on undefined and null
GetThrows(v) == v.t \in {"undefined", "null"}

\* v.key for a non-numeric key other than "length"
Get(v, key) == IF v.t = "object" /\ key \in DOMAIN v.v THEN v.v[key] ELSE Undef

RECURSIVE JoinText(_, _)
\* Array.prototype.join on an array of strings
JoinText(lines, sep) ==
  IF lines = <<>> THEN <<>>
  ELSE IF Len(lines) = 1 THEN lines[1]
  ELSE lines[1] \o sep \o JoinText(Tail(lines), sep)

RECURSIVE ToStr(_)
\* String(v), the conversion a template literal applies
ToStr(v) ==
  CASE v.t = "undefined" -> <<"undefined">>
    [] v.t = "null" -> <<"null">>
    [] v.t = "nan" -> <<"NaN">>
    [] v.t = "string" -> v.v
    [] v.t = "number" -> <<ToString(v.v)>>
    [] v.t = "boolean" -> IF v.v THEN <<"true">> ELSE <<"false">>
    [] v.t = "array" ->
         JoinText([i \in 1..Len(v.v) |->
                     IF v.v[i].t \in {"undefined", "null"} THEN <<>>
                     ELSE ToStr(v.v[i])], <<",">>)
    [] OTHER -> <<"[object Object]">>

(***************************************************************************)
(* String primitives.                                                      *)
(***************************************************************************)
IsWhitespace(c) == c \in {" ", "\t", "\n", "\r"}
IsDigit(c) == c \in {"0", "1", "2", "3", "4", "5", "6", "7", "8", "9"}

RECURSIVE TrimStart(_)
TrimStart(s) ==
  IF s # <<>> /\ IsWhitespace(Head(s)) THEN TrimStart(Tail(s)) ELSE s

RECURSIVE TrimEnd(_)
TrimEnd(s) ==
  IF s # <<>> /\ IsWhitespace(s[Len(s)]) THEN TrimEnd(SubSeq(s, 1, Len(s) - 1))
  ELSE s

\* String.prototype.trim
Trim(s) == TrimEnd(TrimStart(s))

LowerChar(c) ==
  CASE c = "X" -> "x" [] c = "A" -> "a" [] c = "M" -> "m" [] OTHER -> c

\* String.prototype.toLowerCase
ToLowerCase(s) == [i \in 1..Len(s) |-> LowerChar(s[i])]

\* String.prototype.startsWith
StartsWith(s, prefix) ==
  Len(s) >= Len(prefix) /\ SubSeq(s, 1, Len(prefix)) = prefix

\* /^\d+$/.test(s)
AllDigits(s) == s # <<>> /\ \A i \in 1..Len(s) : IsDigit(s[i])

RECURSIVE Split(_)
\* String.prototype.split("\n")
Split(s) ==
  IF \A i \in 1..Len(s) : s[i] # "\n" THEN <<s>>
  ELSE LET i == CHOOSE k \in 1..Len(s) :
                  s[k] = "\n" /\ \A j \in 1..(k - 1) : s[j] # "\n"
       IN <<SubSeq(s, 1, i - 1)>> \o Split(SubSeq(s, i + 1, Len(s)))

(***************************************************************************)
(* Process start-up: parseArgs and main (index.ts).                        *)
(***************************************************************************)
DefaultPort == 9009
DefaultHost == <<"l", "o", "c", "a", "l", "h", "o", "s", "t">>

OptHost == <<"-", "-", "h", "o", "s", "t">>
OptPort == <<"-", "-", "p", "o", "r", "t">>
OptHelp == <<"-", "-", "h", "e", "l", "p">>
OptH == <<"-", "h">>

DigitValue(c) ==
  CASE c = "0" -> 0 [] c = "1" -> 1 [] c = "2" -> 2 [] c = "3" -> 3
    [] c = "4" -> 4 [] c = "5" -> 5 [] c = "6" -> 6 [] c = "7" -> 7
    [] c = "8" -> 8 [] c = "9" -> 9

RECURSIVE DigitsPrefix(_, _, _)
\* value of the longest prefix of decimal digits of s; NaN when it is empty
DigitsPrefix(s, acc, any) ==
  IF s # <<>> /\ IsDigit(Head(s))
  THEN DigitsPrefix(Tail(s), 10 * acc + DigitValue(Head(s)), TRUE)
  ELSE IF any THEN Num(acc) ELSE NaN

\* parseInt(s, 10)
parseInt(s) ==
  LET t == TrimStart(s)
      neg == t # <<>> /\ Head(t) = "-"
      body == IF t # <<>> /\ Head(t) \in {"-", "+"} THEN Tail(t) ELSE t
      n == DigitsPrefix(body, 0, FALSE)
  IN IF n.t = "number" /\ neg THEN Num(0 - n.v) ELSE n

RECURSIVE ArgLoop(_, _, _, _)
\* the for loop over args: i is the 1-based index of the argument examined
ArgLoop(a, i, host, port) ==
  IF i > Len(a) THEN [exit |-> FALSE, host |-> host, port |-> port]
  ELSE IF a[i] = OptHost
       THEN IF i + 1 <= Len(a) THEN ArgLoop(a, i + 2, a[i + 1], port)
            ELSE ArgLoop(a, i + 1, host, port)
  ELSE IF a[i] = OptPort
       THEN IF i + 1 <= Len(a) THEN ArgLoop(a, i + 2, host, parseInt(a[i + 1]))
            ELSE ArgLoop(a, i + 1, host, port)
  ELSE IF a[i] \in {OptHelp, OptH}
       THEN [exit |-> TRUE, host |-> host, port |-> port]
  ELSE ArgLoop(a, i + 1, host, port)

\* the two `if (process.env...)` statements that follow the loop
EnvOverride(r, e) ==
  [exit |-> r.exit,
   host |-> IF Truthy(e.host) THEN e.host.v ELSE r.host,
   port |-> IF Truthy(e.port) THEN OrElse(parseInt(e.port.v), r.port)
            ELSE r.port]

parseArgs(a, e) ==
  LET r == ArgLoop(a, 1, DefaultHost, Num(DefaultPort))
  IN IF r.exit THEN r ELSE EnvOverride(r, e)

NoConfig == [host |-> <<>>, port |-> Undef]
DefaultConfig == [host |-> DefaultHost, port |-> Num(DefaultPort)]

(***************************************************************************)
(* The HTTP client (client.ts).  An outcome is what the network did with   *)
(* one request: a response of some status, no response at all (connection *)
(* refused, timeout), or a failure before the request left.                *)
(***************************************************************************)
Response(status, statusText, data) ==
  [k |-> "response", status |-> status, statusText |-> statusText,
   data |-> data, message |-> <<>>]
NoResponse == [k |-> "noresponse", status |-> 0, statusText |-> <<>>,
               data |-> Undef, message |-> <<"timeout of 30000ms exceeded">>]
SetupFailure == [k |-> "setup", status |-> 0, statusText |-> <<>>,
                 data |-> Undef, message |-> <<"Invalid URL">>]

Return(v) == [c |-> "return", v |-> v]
Throw(e) == [c |-> "throw", v |-> e]

\* axios with the default validateStatus: resolves on 2xx, rejects otherwise
AxiosRequest(out) ==
  IF out.k = "response" /\ out.status >= 200 /\ out.status < 300
  THEN Return(out)
  ELSE Throw(out)

NoResponseHint ==
  <<"No response from server - is Binary Ninja running with the MCP plugin?">>

getErrorMessage(error) ==
  IF error.k = "response"
  THEN <<"Server returned ", ToString(error.status), ": ">> \o error.statusText
  ELSE IF error.k = "noresponse" THEN NoResponseHint
  ELSE error.message

handleError(error, method, endpoint) ==
  <<"Error: ", method, " ", endpoint, " failed: ">> \o getErrorMessage(error)

\* getText without its catch block: a rejected request propagates
getText_uncaught(endpoint, out) ==
  LET r == AxiosRequest(out)
  IN IF r.c = "throw" THEN r
     ELSE IF r.v.status >= 200 /\ r.v.status < 300 THEN Return(ToStr(r.v.data))
     ELSE Return(<<"Error ", ToString(r.v.status), ": ">> \o ToStr(r.v.data))

getText(endpoint, out) ==
  LET r == AxiosRequest(out)
  IN IF r.c = "throw" THEN Return(handleError(r.v, "GET", endpoint))
     ELSE IF r.v.status >= 200 /\ r.v.status < 300 THEN Return(ToStr(r.v.data))
     ELSE Return(<<"Error ", ToString(r.v.status), ": ">> \o ToStr(r.v.data))

getJson(endpoint, out) ==
  LET r == AxiosRequest(out)
  IN IF r.c = "throw"
     THEN Return(Obj([error |-> Str(<<"Request failed: ">> \o getErrorMessage(r.v))]))
     ELSE IF r.v.status >= 200 /\ r.v.status < 300 THEN Return(r.v.data)
     ELSE IF Truthy(r.v.data) /\ TypeofObject(r.v.data) /\ In("error", r.v.data)
          THEN Return(r.v.data)
     ELSE Return(Obj([error |-> Str(<<"Error ", ToString(r.v.status), ": ">>
                                     \o r.v.statusText)]))

getLines(endpoint, out) ==
  LET text == getText(endpoint, out)
  IN IF text.c = "throw" THEN text ELSE Return(Split(text.v))

\* post returning the response text as it came
post_untrimmed(endpoint, out) ==
  LET r == AxiosRequest(out)
  IN IF r.c = "throw" THEN Return(handleError(r.v, "POST", endpoint))
     ELSE Return(ToStr(r.v.data))

\* post: a body that is not a string makes .trim() raise inside the try
post(endpoint, out) ==
  LET r == AxiosRequest(out)
  IN IF r.c = "throw" THEN Return(handleError(r.v, "POST", endpoint))
     ELSE IF r.v.status >= 200 /\ r.v.status < 300
          THEN IF r.v.data.t = "string" THEN Return(Trim(r.v.data.v))
               ELSE Return(<<"Error: ", "POST", " ", endpoint, " failed: ",
                             "TypeError: response.data.trim is not a function">>)
     ELSE Return(<<"Error ", ToString(r.v.status), ": ">> \o ToStr(r.v.data))

(***************************************************************************)
(* JSON.stringify (compact form).  Object keys come out in KeyOrder.       *)
(***************************************************************************)
KeyOrder == <<"error", "code", "filename", "il", "assembly", "decompiled",
              "total", "renamed", "strings", "address", "length", "type",
              "value", "status", "applied_type", "stack_frame_vars", "decl",
              "hexdump", "name", "platforms">>

EscapeChar(c) ==
  CASE c = "\n" -> "\\n" [] c = "\"" -> "\\\"" [] OTHER -> c

Quote(s) == <<"\"">> \o [i \in 1..Len(s) |-> EscapeChar(s[i])] \o <<"\"">>

RECURSIVE JsonStringify(_)
RECURSIVE JsonMembers(_, _)
JsonMembers(f, i) ==
  IF i > Len(KeyOrder) THEN <<>>
  ELSE IF KeyOrder[i] \in DOMAIN f /\ f[KeyOrder[i]].t # "undefined"
       THEN <<Quote(<<KeyOrder[i]>>) \o <<":">> \o JsonStringify(f[KeyOrder[i]])>>
            \o JsonMembers(f, i + 1)
  ELSE JsonMembers(f, i + 1)

JsonStringify(v) ==
  CASE v.t = "undefined" -> <<"undefined">>
    [] v.t \in {"null", "nan"} -> <<"null">>
    [] v.t = "string" -> Quote(v.v)
    [] v.t = "number" -> <<ToString(v.v)>>
    [] v.t = "boolean" -> IF v.v THEN <<"true">> ELSE <<"false">>
    [] v.t = "array" ->
         <<"[">> \o JoinText([i \in 1..Len(v.v) |->
                                IF v.v[i].t = "undefined" THEN <<"null">>
                                ELSE JsonStringify(v.v[i])], <<",">>) \o <<"]">>
    [] OTHER -> <<"{">> \o JoinText(JsonMembers(v.v, 1), <<",">>) \o <<"}">>

RECURSIVE JsonStringifyIndented(_, _)
RECURSIVE JsonMembersIndented(_, _, _)
JsonMembersIndented(f, i, ind) ==
  IF i > Len(KeyOrder) THEN <<>>
  ELSE IF KeyOrder[i] \in DOMAIN f /\ f[KeyOrder[i]].t # "undefined"
       THEN <<ind \o Quote(<<KeyOrder[i]>>) \o <<":", " ">>
                \o JsonStringifyIndented(f[KeyOrder[i]], ind)>>
            \o JsonMembersIndented(f, i + 1, ind)
  ELSE JsonMembersIndented(f, i + 1, ind)

\* JSON.stringify(v, null, 2) for a value nested under the indentation ind
JsonStringifyIndented(v, ind) ==
  LET inner == ind \o <<" ", " ">>
  IN CASE v.t = "array" /\ v.v # <<>> ->
            <<"[", "\n">>
            \o JoinText([i \in 1..Len(v.v) |->
                           inner \o (IF v.v[i].t = "undefined" THEN <<"null">>
                                     ELSE JsonStringifyIndented(v.v[i], inner))],
                        <<",", "\n">>)
            \o <<"\n">> \o ind \o <<"]">>
       [] v.t = "object" /\ JsonMembers(v.v, 1) # <<>> ->
            <<"{", "\n">> \o JoinText(JsonMembersIndented(v.v, 1, inner), <<",", "\n">>)
            \o <<"\n">> \o ind \o <<"}">>
       [] OTHER -> JsonStringify(v)

(***************************************************************************)
(* Handler plumbing: a handler issues a request, waits for its outcome,    *)
(* and in the end resolves with a text payload or rejects.                 *)
(***************************************************************************)
\* a request made through getJson
Request(method, endpoint, params) ==
  [method |-> method, endpoint |-> endpoint, params |-> params,
   responseType |-> "json"]
\* a request made through getText or getLines: responseType "text"
TextRequest(method, endpoint, params) ==
  [method |-> method, endpoint |-> endpoint, params |-> params,
   responseType |-> "text"]
NoRequest == [method |-> "none", endpoint |-> "", params |-> <<>>,
              responseType |-> "none"]
NoOutcome == [k |-> "none", status |-> 0, statusText |-> <<>>,
              data |-> Undef, message |-> <<>>]
NoPayload == [kind |-> "none", text |-> <<>>]
Text(t) == [kind |-> "text", text |-> t]
NoRet == [c |-> "none", v |-> <<>>]
NoEnv == [host |-> Undef, port |-> Undef]

\* the handler is called: its synchronous prefix ends at the first await
Invoke(o, a, req, nextpc, loc) ==
  /\ stage = "serving" /\ pc = "idle"
  /\ op' = o /\ args' = a /\ pc' = nextpc /\ locals' = loc
  /\ pending' = req /\ sent' = <<req>> /\ response' = NoOutcome
  /\ UNCHANGED <<stage, argv, env, config, fetched, payload, ret, received, other>>

\* the handler is called and returns or throws before any await
InvokeLocal(o, a, c) ==
  /\ stage = "serving" /\ pc = "idle"
  /\ op' = o /\ args' = a /\ locals' = <<>>
  /\ pc' = IF c.c = "throw" THEN "thrown" ELSE "done"
  /\ payload' = IF c.c = "throw" THEN NoPayload ELSE Text(c.v)
  /\ UNCHANGED <<stage, argv, env, config, pending, response, sent, fetched, ret,
                 received, other>>

\* the awaited call has settled; the handler goes on to its next await
Send(req, nextpc, loc) ==
  /\ pending' = req /\ sent' = Append(sent, req) /\ response' = NoOutcome
  /\ pc' = nextpc /\ locals' = loc
  /\ UNCHANGED <<stage, argv, env, config, op, args, payload, ret, received, other>>

\* the awaited call has settled; the handler returns or throws
Complete(c, loc) ==
  /\ pending' = NoRequest /\ locals' = loc
  /\ pc' = IF c.c = "throw" THEN "thrown" ELSE "done"
  /\ payload' = IF c.c = "throw" THEN NoPayload ELSE Text(c.v)
  /\ UNCHANGED <<stage, argv, env, config, op, args, response, sent, ret,
                 received, other>>

\* the handler going on without waiting for the outcome
Settled_unawaited(at) == pc = at

\* `await`: the handler resumes at `at` once the outcome has arrived
Settled(at) == pc = at /\ response # NoOutcome

TypeError == Throw(<<"TypeError">>)

(***************************************************************************)
(* registerTools: getActiveFilename and the function analysis tools.       *)
(***************************************************************************)
\* the lookup trusting the status answer to hold a file name
getActiveFilename_trusting(out) == ToStr(Get(getJson("status", out).v, "filename"))

getActiveFilename(out) ==
  LET data == getJson("status", out).v
  IN IF Truthy(data) /\ TypeofObject(data) /\ In("filename", data)
     THEN ToStr(OrElse(Get(data, "filename"), Str(<<"(none)">>)))
     ELSE <<"(none)">>

StatusRequest == Request("GET", "status", <<>>)
FileHeader(filename) == <<"File: ">> \o filename \o <<"\n", "\n">>

\* decompile_function
decompile_function_params(a) == [name |-> Str(a.name)]

decompile_function_render(filename, data) ==
  IF ~Truthy(data) THEN Return(FileHeader(filename) \o <<"Error: no response">>)
  ELSE IF InThrows(data) THEN TypeError
  ELSE IF In("error", data)
       THEN Return(FileHeader(filename) \o <<"Error: ">> \o ToStr(Get(data, "error")))
  ELSE Return(FileHeader(filename)
              \o ToStr(OrElse(Get(data, "decompiled"), Str(<<>>))))

decompile_function_call(bags) ==
  /\ stage = "serving" /\ pc = "idle"
  /\ \E a \in bags :
       Invoke("decompile_function", a, StatusRequest, "decompile_function:status", <<>>)

decompile_function_status ==
  /\ op = "decompile_function" /\ Settled("decompile_function:status")
  /\ Send(Request("GET", "decompile", decompile_function_params(args)),
          "decompile_function:decompile",
          [filename |-> getActiveFilename(response)])
  /\ UNCHANGED fetched

decompile_function_done ==
  /\ op = "decompile_function" /\ Settled("decompile_function:decompile")
  /\ Complete(decompile_function_render(locals.filename,
                                        getJson("decompile", response).v), locals)
  /\ UNCHANGED fetched

\* get_il
IsAddress(ident) ==
  StartsWith(ToLowerCase(ident), <<"0", "x">>) \/ AllDigits(ident)

get_il_params(a) ==
  LET ident == Trim(a.name_or_address)
      params == [view |-> Str(<<a.view>>), ssa |-> Num(IF a.ssa THEN 1 ELSE 0)]
  IN IF IsAddress(ident) THEN ("address" :> Str(ident)) @@ params
     ELSE ("name" :> Str(ident)) @@ params

get_il_render(filename, data) ==
  IF ~Truthy(data) THEN Return(FileHeader(filename) \o <<"Error: no response">>)
  ELSE IF InThrows(data) THEN TypeError
  ELSE IF In("error", data)
       THEN Return(FileHeader(filename) \o <<"Error: ">>
                   \o JsonStringify(Get(data, "error")))
  ELSE Return(FileHeader(filename) \o ToStr(OrElse(Get(data, "il"), Str(<<>>))))

get_il_call(bags) ==
  /\ stage = "serving" /\ pc = "idle"
  /\ \E a \in bags :
       Invoke("get_il", a, StatusRequest, "get_il:status", <<>>)

get_il_status ==
  /\ op = "get_il" /\ Settled("get_il:status")
  /\ Send(Request("GET", "il", get_il_params(args)), "get_il:il",
          [filename |-> getActiveFilename(response)])
  /\ UNCHANGED fetched

get_il_done ==
  /\ op = "get_il" /\ Settled("get_il:il")
  /\ Complete(get_il_render(locals.filename, getJson("il", response).v), locals)
  /\ UNCHANGED fetched

\* fetch_disassembly
\* fetch_disassembly classifying its identifier the way get_il does
fetch_disassembly_params_classified(a) ==
  IF IsAddress(Trim(a.name)) THEN [address |-> Str(Trim(a.name))]
  ELSE [name |-> Str(Trim(a.name))]

fetch_disassembly_params(a) == [name |-> Str(a.name)]

fetch_disassembly_render(filename, data) ==
  IF ~Truthy(data) THEN Return(FileHeader(filename) \o <<"Error: no response">>)
  ELSE IF InThrows(data) THEN TypeError
  ELSE IF In("error", data)
       THEN Return(FileHeader(filename) \o <<"Error: ">> \o ToStr(Get(data, "error")))
  ELSE Return(FileHeader(filename)
              \o ToStr(OrElse(Get(data, "assembly"), Str(<<>>))))

fetch_disassembly_call(bags) ==
  /\ stage = "serving" /\ pc = "idle"
  /\ \E a \in bags :
       Invoke("fetch_disassembly", a, StatusRequest, "fetch_disassembly:status", <<>>)

fetch_disassembly_status ==
  /\ op = "fetch_disassembly" /\ Settled("fetch_disassembly:status")
  /\ Send(Request("GET", "assembly", fetch_disassembly_params(args)),
          "fetch_disassembly:assembly",
          [filename |-> getActiveFilename(response)])
  /\ UNCHANGED fetched

fetch_disassembly_done ==
  /\ op = "fetch_disassembly" /\ Settled("fetch_disassembly:assembly")
  /\ Complete(fetch_disassembly_render(locals.filename,
                                       getJson("assembly", response).v), locals)
  /\ UNCHANGED fetched

(***************************************************************************)
(* registerTools: the other tools that take a name or an address.          *)
(***************************************************************************)
\* `if (length !== undefined && length !== -1) params.length = length`
WithLength(params, length) ==
  IF length # -1 THEN ("length" :> Num(length)) @@ params ELSE params

\* hexdump_data
hexdump_data_request(a) ==
  LET ident == Trim(a.name_or_address)
  IN IF StartsWith(ident, <<"0", "x">>)
     THEN TextRequest("GET", "hexdump",
                      WithLength([address |-> Str(ident)], a.length))
     ELSE TextRequest("GET", "hexdumpByName",
                      WithLength([name |-> Str(ident)], a.length))

hexdump_data_call(bags) ==
  /\ stage = "serving" /\ pc = "idle"
  /\ \E a \in bags :
       Invoke("hexdump_data", a, hexdump_data_request(a), "hexdump_data:text", <<>>)

hexdump_data_done ==
  /\ op = "hexdump_data" /\ Settled("hexdump_data:text")
  /\ Complete(getText(pending.endpoint, response), locals)
  /\ UNCHANGED fetched

\* get_data_decl
get_data_decl_params(a) ==
  LET ident == Trim(a.name_or_address)
  IN WithLength(IF StartsWith(ident, <<"0", "x">>) THEN [address |-> Str(ident)]
                ELSE [name |-> Str(ident)], a.length)

get_data_decl_render(ident, data) ==
  IF ~Truthy(data) THEN Return(<<"Error: no response">>)
  ELSE IF InThrows(data) THEN TypeError
  ELSE IF In("error", data) THEN Return(<<"Error: ">> \o ToStr(Get(data, "error")))
  ELSE LET decl == OrElse(Get(data, "decl"), Str(<<"(no declaration)">>))
           hexdump == OrElse(Get(data, "hexdump"), Str(<<>>))
           addr == OrElse(Get(data, "address"), Str(<<>>))
           name == OrElse(Get(data, "name"), Str(ident))
       IN Return(<<"Declaration (">> \o ToStr(addr) \o <<" ">> \o ToStr(name)
                 \o <<"):", "\n">> \o ToStr(decl)
                 \o <<"\n", "\n", "Hexdump:", "\n">> \o ToStr(hexdump))

get_data_decl_call(bags) ==
  /\ stage = "serving" /\ pc = "idle"
  /\ \E a \in bags :
       Invoke("get_data_decl", a, Request("GET", "getDataDecl", get_data_decl_params(a)),
              "get_data_decl:json", <<>>)

get_data_decl_done ==
  /\ op = "get_data_decl" /\ Settled("get_data_decl:json")
  /\ Complete(get_data_decl_render(Trim(args.name_or_address),
                                   getJson("getDataDecl", response).v), locals)
  /\ UNCHANGED fetched

\* get_stack_frame_vars sending the identifier as it was given
get_stack_frame_vars_params_untrimmed(a) ==
  IF IsAddress(Trim(a.function_identifier))
  THEN [address |-> Str(a.function_identifier)]
  ELSE [name |-> Str(a.function_identifier)]

\* get_stack_frame_vars
get_stack_frame_vars_params(a) ==
  LET ident == Trim(a.function_identifier)
  IN IF IsAddress(ident) THEN [address |-> Str(ident)] ELSE [name |-> Str(ident)]

get_stack_frame_vars_render(data) ==
  IF ~Truthy(data) THEN Return(<<>>)
  ELSE IF InThrows(data) THEN TypeError
  ELSE IF In("error", data) THEN Return(<<>>)
  ELSE LET stack_vars == OrElse(Get(data, "stack_frame_vars"), Arr(<<>>))
       IN IF stack_vars.t # "array" THEN TypeError
          ELSE Return(JoinText([i \in 1..Len(stack_vars.v) |->
                                  IF stack_vars.v[i].t \in {"undefined", "null"} THEN <<>>
                                  ELSE ToStr(stack_vars.v[i])], <<"\n">>))

get_stack_frame_vars_call(bags) ==
  /\ stage = "serving" /\ pc = "idle"
  /\ \E a \in bags :
       Invoke("get_stack_frame_vars", a,
              Request("GET", "getStackFrameVars", get_stack_frame_vars_params(a)),
              "get_stack_frame_vars:json", <<>>)

get_stack_frame_vars_done ==
  /\ op = "get_stack_frame_vars" /\ Settled("get_stack_frame_vars:json")
  /\ Complete(get_stack_frame_vars_render(getJson("getStackFrameVars", response).v),
              locals)
  /\ UNCHANGED fetched

\* set_function_prototype
set_function_prototype_params(a) ==
  LET ident == Trim(a.name_or_address)
      params == [prototype |-> Str(a.prototype)]
  IN IF IsAddress(ident) THEN ("address" :> Str(ident)) @@ params
     ELSE ("name" :> Str(ident)) @@ params

set_function_prototype_render(data) ==
  IF ~Truthy(data) THEN Return(<<"Error: no response">>)
  ELSE IF InThrows(data) THEN TypeError
  ELSE IF In("status", data)
       THEN Return(<<"Applied prototype at ">> \o ToStr(Get(data, "address"))
                   \o <<": ">> \o ToStr(Get(data, "applied_type")))
  ELSE IF In("error", data) THEN Return(<<"Error: ">> \o ToStr(Get(data, "error")))
  ELSE Return(JsonStringify(data))

set_function_prototype_call(bags) ==
  /\ stage = "serving" /\ pc = "idle"
  /\ \E a \in bags :
       Invoke("set_function_prototype", a,
              Request("GET", "setFunctionPrototype", set_function_prototype_params(a)),
              "set_function_prototype:json", <<>>)

set_function_prototype_done ==
  /\ op = "set_function_prototype" /\ Settled("set_function_prototype:json")
  /\ Complete(set_function_prototype_render(
                getJson("setFunctionPrototype", response).v), locals)
  /\ UNCHANGED fetched

(***************************************************************************)
(* JSON.parse as rename_multi_variables uses it: does the text parse?      *)
(* Covers unsigned integers, strings without escapes, the three literals,  *)
(* arrays and objects.                                                     *)
(***************************************************************************)
RECURSIVE IsJsonValue(_)
RECURSIVE IsJsonElements(_)
RECURSIVE IsJsonMembers(_)

IsJsonNumber(t) ==
  /\ t # <<>> /\ \A i \in 1..Len(t) : IsDigit(t[i])
  /\ (t[1] = "0" => Len(t) = 1)

IsJsonString(t) ==
  /\ Len(t) >= 2 /\ t[1] = "\"" /\ t[Len(t)] = "\""
  /\ \A i \in 2..(Len(t) - 1) : t[i] \notin {"\"", "\\", "\n", "\t", "\r"}

Inner(t) == SubSeq(t, 2, Len(t) - 1)

IsJsonMember(u) ==
  \E i \in 1..Len(u) :
    /\ u[i] = ":"
    /\ IsJsonString(Trim(SubSeq(u, 1, i - 1)))
    /\ IsJsonValue(SubSeq(u, i + 1, Len(u)))

IsJsonMembers(u) ==
  \/ IsJsonMember(u)
  \/ \E i \in 1..Len(u) :
       /\ u[i] = ","
       /\ IsJsonMember(SubSeq(u, 1, i - 1))
       /\ IsJsonMembers(SubSeq(u, i + 1, Len(u)))

IsJsonElements(u) ==
  \/ IsJsonValue(u)
  \/ \E i \in 1..Len(u) :
       /\ u[i] = ","
       /\ IsJsonValue(SubSeq(u, 1, i - 1))
       /\ IsJsonElements(SubSeq(u, i + 1, Len(u)))

IsJsonValue(s) ==
  LET t == Trim(s)
  IN /\ t # <<>>
     /\ \/ IsJsonNumber(t)
        \/ IsJsonString(t)
        \/ t \in {<<"t", "r", "u", "e">>, <<"f", "a", "l", "s", "e">>,
                  <<"n", "u", "l", "l">>}
        \/ /\ Len(t) >= 2 /\ t[1] = "[" /\ t[Len(t)] = "]"
           /\ (Trim(Inner(t)) = <<>> \/ IsJsonElements(Inner(t)))
        \/ /\ Len(t) >= 2 /\ t[1] = "{" /\ t[Len(t)] = "}"
           /\ (Trim(Inner(t)) = <<>> \/ IsJsonMembers(Inner(t)))

\* JSON.parse(text) throws SyntaxError
JsonParseThrows(text) == ~IsJsonValue(text)

(***************************************************************************)
(* registerTools: rename_multi_variables.                                  *)
(***************************************************************************)
rename_multi_variables_ident(a) ==
  LET ident == Trim(a.function_identifier)
  IN IF IsAddress(ident) THEN [address |-> Str(ident)]
     ELSE [functionName |-> Str(ident)]

\* the chain without its final else: nothing supplied still sends a request
rename_multi_variables_select_no_else(a) ==
  LET params == rename_multi_variables_ident(a)
  IN IF Truthy(a.renames_json)
     THEN IF JsonParseThrows(a.renames_json.v)
          THEN [ok |-> FALSE, params |-> <<>>,
                text |-> <<"Error: ", "renames_json", " is not valid JSON">>]
          ELSE [ok |-> TRUE, params |-> ("renames" :> a.renames_json) @@ params,
                text |-> <<>>]
     ELSE IF Truthy(a.mapping_json)
     THEN IF JsonParseThrows(a.mapping_json.v)
          THEN [ok |-> FALSE, params |-> <<>>,
                text |-> <<"Error: ", "mapping_json", " is not valid JSON">>]
          ELSE [ok |-> TRUE, params |-> ("mapping" :> a.mapping_json) @@ params,
                text |-> <<>>]
     ELSE IF Truthy(a.pairs)
     THEN [ok |-> TRUE, params |-> ("pairs" :> a.pairs) @@ params, text |-> <<>>]
     ELSE [ok |-> TRUE, params |-> params, text |-> <<>>]

\* the chain forwarding mapping_json without parsing it
rename_multi_variables_select_unparsed(a) ==
  LET params == rename_multi_variables_ident(a)
  IN IF Truthy(a.renames_json)
     THEN IF JsonParseThrows(a.renames_json.v)
          THEN [ok |-> FALSE, params |-> <<>>,
                text |-> <<"Error: ", "renames_json", " is not valid JSON">>]
          ELSE [ok |-> TRUE, params |-> ("renames" :> a.renames_json) @@ params,
                text |-> <<>>]
     ELSE IF Truthy(a.mapping_json)
     THEN [ok |-> TRUE, params |-> ("mapping" :> a.mapping_json) @@ params,
           text |-> <<>>]
     ELSE IF Truthy(a.pairs)
     THEN [ok |-> TRUE, params |-> ("pairs" :> a.pairs) @@ params, text |-> <<>>]
     ELSE [ok |-> FALSE, params |-> <<>>,
           text |-> <<"Error: provide ", "mapping_json", ", ", "renames_json",
                      ", or ", "pairs">>]

\* the chain forwarding pairs next to the alternative it picked
rename_multi_variables_select_all(a) ==
  LET r == rename_multi_variables_select_unparsed(a)
  IN IF r.ok /\ Truthy(a.pairs)
     THEN [r EXCEPT !.params = ("pairs" :> a.pairs) @@ r.params]
     ELSE r

\* the if / else-if chain over renames_json, mapping_json and pairs: either
\* the request parameters or the text of the early return
rename_multi_variables_select(a) ==
  LET params == rename_multi_variables_ident(a)
  IN IF Truthy(a.renames_json)
     THEN IF JsonParseThrows(a.renames_json.v)
          THEN [ok |-> FALSE, params |-> <<>>,
                text |-> <<"Error: ", "renames_json", " is not valid JSON">>]
          ELSE [ok |-> TRUE, params |-> ("renames" :> a.renames_json) @@ params,
                text |-> <<>>]
     ELSE IF Truthy(a.mapping_json)
     THEN IF JsonParseThrows(a.mapping_json.v)
          THEN [ok |-> FALSE, params |-> <<>>,
                text |-> <<"Error: ", "mapping_json", " is not valid JSON">>]
          ELSE [ok |-> TRUE, params |-> ("mapping" :> a.mapping_json) @@ params,
                text |-> <<>>]
     ELSE IF Truthy(a.pairs)
     THEN [ok |-> TRUE, params |-> ("pairs" :> a.pairs) @@ params, text |-> <<>>]
     ELSE [ok |-> FALSE, params |-> <<>>,
           text |-> <<"Error: provide ", "mapping_json", ", ", "renames_json",
                      ", or ", "pairs">>]

\* the summary with the two counts exchanged
rename_multi_variables_render_swapped(data) ==
  IF ~Truthy(data) THEN Return(<<"Error: no response">>)
  ELSE IF InThrows(data) THEN TypeError
  ELSE IF In("error", data) THEN Return(<<"Error: ">> \o ToStr(Get(data, "error")))
  ELSE Return(<<"Batch rename: ">> \o ToStr(Get(data, "total")) \o <<"/">>
              \o ToStr(Get(data, "renamed")) \o <<" applied">>)

rename_multi_variables_render(data) ==
  IF ~Truthy(data) THEN Return(<<"Error: no response">>)
  ELSE IF InThrows(data) THEN TypeError
  ELSE IF In("error", data) THEN Return(<<"Error: ">> \o ToStr(Get(data, "error")))
  ELSE Return(<<"Batch rename: ">> \o ToStr(Get(data, "renamed")) \o <<"/">>
              \o ToStr(Get(data, "total")) \o <<" applied">>)

rename_multi_variables_call(bags) ==
  /\ stage = "serving" /\ pc = "idle"
  /\ \E a \in bags :
       LET sel == rename_multi_variables_select(a)
       IN IF sel.ok
          THEN Invoke("rename_multi_variables", a,
                      Request("GET", "renameVariables", sel.params),
                      "rename_multi_variables:json", <<>>)
          ELSE InvokeLocal("rename_multi_variables", a, Return(sel.text))

rename_multi_variables_done ==
  /\ op = "rename_multi_variables" /\ Settled("rename_multi_variables:json")
  /\ Complete(rename_multi_variables_render(getJson("renameVariables", response).v),
              locals)
  /\ UNCHANGED fetched

(***************************************************************************)
(* registerTools: list_all_strings.                                        *)
(***************************************************************************)
\* s.length
GetLength(s) ==
  IF s.t \in {"string", "array"} THEN Num(Len(s.v)) ELSE Get(s, "length")

\* `${addr}\t${length}\t${stype}\t${value}` for one element of items
list_all_strings_line(s) ==
  ToStr(OrElse(Get(s, "address"), Str(<<>>))) \o <<"\t">>
  \o ToStr(GetLength(s)) \o <<"\t">>
  \o ToStr(OrElse(Get(s, "type"), Str(<<>>))) \o <<"\t">>
  \o ToStr(OrElse(Get(s, "value"), Str(<<>>)))

\* items of a page; <<>> when data.strings is not an array
list_all_strings_items(data) ==
  IF Get(data, "strings").t = "array" THEN Get(data, "strings").v ELSE <<>>

\* the exit test written with <= : a full page ends the loop
IsShortPage_inclusive(items, batch_size) == Len(items) <= batch_size

\* `items.length < batch_size`: the page is the last one
IsShortPage(items, batch_size) == Len(items) < batch_size

StringsRequest(offset, limit) ==
  Request("GET", "strings", [offset |-> Num(offset), limit |-> Num(limit)])

list_all_strings_call(bags) ==
  /\ stage = "serving" /\ pc = "idle"
  /\ \E a \in bags :
       Invoke("list_all_strings", a, StringsRequest(0, a.batch_size),
              "list_all_strings:page", [results |-> <<>>, offset |-> 0])

\* `break`, then the return statement after the loop
list_all_strings_break(results) ==
  Complete(Return(JoinText(results, <<"\n">>)),
           [results |-> results, offset |-> locals.offset])

\* one iteration of the while loop, from the settled getJson on
list_all_strings_page ==
  /\ op = "list_all_strings" /\ Settled("list_all_strings:page")
  /\ LET data == getJson("strings", response).v
         items == list_all_strings_items(data)
         results == locals.results
                    \o [i \in 1..Len(items) |-> list_all_strings_line(items[i])]
     IN /\ fetched' = Append(fetched, data)
        /\ IF ~Truthy(data) THEN list_all_strings_break(locals.results)
           ELSE IF InThrows(data) THEN Complete(TypeError, locals)
           ELSE IF ~In("strings", data) THEN list_all_strings_break(locals.results)
           ELSE IF Len(items) = 0 THEN list_all_strings_break(locals.results)
           ELSE IF \E i \in 1..Len(items) : GetThrows(items[i])
                THEN Complete(TypeError, locals)
           ELSE IF IsShortPage(items, args.batch_size)
                THEN list_all_strings_break(results)
           ELSE /\ Len(sent) < MaxFetches
                /\ Send(StringsRequest(locals.offset + args.batch_size,
                                       args.batch_size),
                        "list_all_strings:page",
                        [results |-> results,
                         offset |-> locals.offset + args.batch_size])

\* one more iteration once MaxFetches requests are on record: the page is
\* neither empty nor short and `offset += batch_size` yields the window just
\* fetched, so the same request goes out again; pages and lines beyond the
\* record are not kept
list_all_strings_again ==
  /\ op = "list_all_strings" /\ Settled("list_all_strings:page")
  /\ Len(sent) = MaxFetches
  /\ LET data == getJson("strings", response).v
         items == list_all_strings_items(data)
     IN /\ Truthy(data) /\ ~InThrows(data) /\ In("strings", data)
        /\ Len(items) # 0
        /\ \A i \in 1..Len(items) : ~GetThrows(items[i])
        /\ ~IsShortPage(items, args.batch_size)
        /\ StringsRequest(locals.offset + args.batch_size, args.batch_size) = pending
  /\ response' = NoOutcome
  /\ UNCHANGED <<stage, argv, env, config, op, args, pc, locals, pending, sent,
                 fetched, payload, ret, received, other>>

(***************************************************************************)
(* Listings: list_methods, search_functions_by_name, list_strings and      *)
(* list_sections.                                                          *)
(***************************************************************************)
PageParams(offset, limit) == [offset |-> Num(offset), limit |-> Num(limit)]

\* `File: ${filename}\n${lines.join("\n")}`
list_methods_text(filename, lines) ==
  <<"File: ">> \o filename \o <<"\n">> \o JoinText(lines, <<"\n">>)

list_methods_call(bags) ==
  /\ stage = "serving" /\ pc = "idle"
  /\ \E a \in bags : Invoke("list_methods", a, StatusRequest, "list_methods:status", <<>>)

list_methods_status ==
  /\ op = "list_methods" /\ Settled("list_methods:status")
  /\ Send(TextRequest("GET", "methods", PageParams(args.offset, args.limit)),
          "list_methods:lines", [filename |-> getActiveFilename(response)])
  /\ UNCHANGED fetched

list_methods_done ==
  /\ op = "list_methods" /\ Settled("list_methods:lines")
  /\ LET lines == getLines("methods", response)
     IN Complete(IF lines.c = "throw" THEN lines
                 ELSE Return(list_methods_text(locals.filename, lines.v)), locals)
  /\ UNCHANGED fetched

\* search_functions_by_name: an empty query is refused before any request
search_functions_by_name_call(bags) ==
  /\ stage = "serving" /\ pc = "idle"
  /\ \E a \in bags :
       IF ~Truthy(Str(a.query))
       THEN InvokeLocal("search_functions_by_name", a,
                        Return(<<"Error: query string is required">>))
       ELSE Invoke("search_functions_by_name", a,
                   TextRequest("GET", "searchFunctions",
                               [query |-> Str(a.query)]
                                 @@ PageParams(a.offset, a.limit)),
                   "search_functions_by_name:lines", <<>>)

search_functions_by_name_done ==
  /\ op = "search_functions_by_name" /\ Settled("search_functions_by_name:lines")
  /\ LET lines == getLines("searchFunctions", response)
     IN Complete(IF lines.c = "throw" THEN lines
                 ELSE Return(JoinText(lines.v, <<"\n">>)), locals)
  /\ UNCHANGED fetched

\* list_strings: `count` travels as `limit`
list_strings_call(bags) ==
  /\ stage = "serving" /\ pc = "idle"
  /\ \E a \in bags :
       Invoke("list_strings", a,
              TextRequest("GET", "strings", PageParams(a.offset, a.count)),
              "list_strings:lines", <<>>)

list_strings_done ==
  /\ op = "list_strings" /\ Settled("list_strings:lines")
  /\ LET lines == getLines("strings", response)
     IN Complete(IF lines.c = "throw" THEN lines
                 ELSE Return(JoinText(lines.v, <<"\n">>)), locals)
  /\ UNCHANGED fetched

\* list_sections asks for the sections first and for the file name after
list_sections_line(s) ==
  LET start == OrElse(Get(s, "start"), Str(<<>>))
      end == OrElse(Get(s, "end"), Str(<<>>))
      size == Get(s, "size")
      name == OrElse(Get(s, "name"), Str(<<"(unnamed)">>))
      sem == OrElse(OrElse(Get(s, "semantics"), Get(s, "type")), Str(<<>>))
      tail == IF Truthy(sem) THEN <<"\t">> \o ToStr(sem) ELSE <<>>
  IN ToStr(start) \o <<"-">> \o ToStr(end) \o <<"\t">> \o ToStr(size)
     \o <<"\t">> \o ToStr(name) \o tail

list_sections_render(filename, data) ==
  LET sections == OrElse(Get(data, "sections"), Arr(<<>>))
  IN IF sections.t # "array" THEN TypeError
     ELSE IF \E i \in 1..Len(sections.v) : GetThrows(sections.v[i]) THEN TypeError
     ELSE Return(JoinText(<<<<"File: ">> \o filename>>
                          \o [i \in 1..Len(sections.v) |->
                                list_sections_line(sections.v[i])], <<"\n">>))

list_sections_call(bags) ==
  /\ stage = "serving" /\ pc = "idle"
  /\ \E a \in bags :
       Invoke("list_sections", a,
              Request("GET", "sections", PageParams(a.offset, a.limit)),
              "list_sections:json", <<>>)

list_sections_json ==
  /\ op = "list_sections" /\ Settled("list_sections:json")
  /\ LET data == getJson("sections", response).v
     IN IF ~Truthy(data) THEN Complete(Return(<<"Error: no response">>), locals)
        ELSE IF InThrows(data) THEN Complete(TypeError, locals)
        ELSE IF In("error", data)
             THEN Complete(Return(<<"Error: no response">>), locals)
        ELSE Send(StatusRequest, "list_sections:status", [data |-> data])
             /\ UNCHANGED payload
  /\ UNCHANGED fetched

list_sections_status ==
  /\ op = "list_sections" /\ Settled("list_sections:status")
  /\ Complete(list_sections_render(getActiveFilename(response), locals.data), locals)
  /\ UNCHANGED fetched

(***************************************************************************)
(* registerTools: comments, platforms and the optional arguments.          *)
(***************************************************************************)
\* z.<type>().optional(): an absent field reaches the handler as undefined
ZodOptional(v) == v

\* z.<type>().default(d): an absent field reaches the handler as d
ZodDefault(v, d) == IF v.t = "undefined" THEN d ELSE v

get_comment_call(addresses) ==
  /\ stage = "serving" /\ pc = "idle"
  /\ \E address \in addresses :
       Invoke("get_comment", [address |-> address],
              TextRequest("GET", "comment", [address |-> Str(address)]),
              "get_comment:lines", <<>>)

\* lines[0] ?? ""
get_comment_done ==
  /\ op = "get_comment" /\ Settled("get_comment:lines")
  /\ LET lines == getLines("comment", response)
     IN Complete(IF lines.c = "throw" THEN lines
                 ELSE Return(IF lines.v = <<>> THEN <<>> ELSE lines.v[1]), locals)
  /\ UNCHANGED fetched

get_function_comment_call(names) ==
  /\ stage = "serving" /\ pc = "idle"
  /\ \E function_name \in names :
       Invoke("get_function_comment", [function_name |-> function_name],
              TextRequest("GET", "comment/function", [name |-> Str(function_name)]),
              "get_function_comment:lines", <<>>)

\* lines[0] || ""
get_function_comment_done ==
  /\ op = "get_function_comment" /\ Settled("get_function_comment:lines")
  /\ LET lines == getLines("comment/function", response)
     IN Complete(IF lines.c = "throw" THEN lines
                 ELSE Return(IF lines.v = <<>> \/ lines.v[1] = <<>> THEN <<>>
                             ELSE lines.v[1]), locals)
  /\ UNCHANGED fetched

\* list_platforms answering a missing list with an error
list_platforms_render_strict(data) ==
  IF ~Truthy(data) THEN Return(<<"Error: no response">>)
  ELSE IF InThrows(data) THEN TypeError
  ELSE IF In("error", data) THEN Return(JsonStringifyIndented(data, <<>>))
  ELSE LET plats == Get(data, "platforms")
       IN IF ~Truthy(plats) \/ plats = Arr(<<>>)
          THEN Return(<<"Error: ", "no platforms">>)
          ELSE IF plats.t # "array" THEN TypeError
          ELSE Return(JoinText([i \in 1..Len(plats.v) |->
                                  IF plats.v[i].t \in {"undefined", "null"} THEN <<>>
                                  ELSE ToStr(plats.v[i])], <<"\n">>))

\* plats.join exists on arrays only; join renders null and undefined as ""
list_platforms_render(data) ==
  IF ~Truthy(data) THEN Return(<<"Error: no response">>)
  ELSE IF InThrows(data) THEN TypeError
  ELSE IF In("error", data) THEN Return(JsonStringifyIndented(data, <<>>))
  ELSE LET plats == Get(data, "platforms")
       IN IF ~Truthy(plats) THEN Return(<<"(no platforms)">>)
          ELSE IF plats.t # "array" THEN TypeError
          ELSE Return(JoinText([i \in 1..Len(plats.v) |->
                                  IF plats.v[i].t \in {"undefined", "null"} THEN <<>>
                                  ELSE ToStr(plats.v[i])], <<"\n">>))

list_platforms_call ==
  Invoke("list_platforms", <<>>, Request("GET", "platforms", <<>>),
         "list_platforms:json", <<>>)

list_platforms_done ==
  /\ op = "list_platforms" /\ Settled("list_platforms:json")
  /\ Complete(list_platforms_render(getJson("platforms", response).v), locals)
  /\ UNCHANGED fetched

\* make_function_at: `if (platform) params.platform = platform`
make_function_at_params(a) ==
  IF Truthy(a.platform)
  THEN [address |-> Str(a.address), platform |-> a.platform]
  ELSE [address |-> Str(a.address)]

make_function_at_render(data) ==
  IF ~Truthy(data) THEN Return(<<"Error: no response">>)
  ELSE IF InThrows(data) THEN TypeError
  ELSE IF In("error", data) THEN Return(JsonStringifyIndented(data, <<>>))
  ELSE IF Get(data, "status") = Str(<<"exists">>)
       THEN Return(<<"Function already exists at ">> \o ToStr(Get(data, "address"))
                   \o <<": ">> \o ToStr(Get(data, "name")))
  ELSE IF Get(data, "status") = Str(<<"ok">>)
       THEN Return(<<"Created function at ">> \o ToStr(Get(data, "address"))
                   \o <<": ">> \o ToStr(Get(data, "name")))
  ELSE Return(JsonStringify(data))

make_function_at_call(bags) ==
  /\ stage = "serving" /\ pc = "idle"
  /\ \E b \in bags :
       LET a == [address |-> b.address, platform |-> ZodOptional(b.platform)]
       IN Invoke("make_function_at", a,
                 Request("GET", "makeFunctionAt", make_function_at_params(a)),
                 "make_function_at:json", <<>>)

make_function_at_done ==
  /\ op = "make_function_at" /\ Settled("make_function_at:json")
  /\ Complete(make_function_at_render(getJson("makeFunctionAt", response).v), locals)
  /\ UNCHANGED fetched

\* list_strings_filter without the default of its destructuring pattern
list_strings_filter_params_no_default(a) ==
  [offset |-> a.offset, limit |-> a.count, filter |-> a.filter]

\* list_strings_filter: ({ offset = 0, count = 100, filter = "" })
list_strings_filter_params(a) ==
  [offset |-> IF a.offset.t = "undefined" THEN Num(0) ELSE a.offset,
   limit |-> IF a.count.t = "undefined" THEN Num(100) ELSE a.count,
   filter |-> IF a.filter.t = "undefined" THEN Str(<<>>) ELSE a.filter]

list_strings_filter_call(bags) ==
  /\ stage = "serving" /\ pc = "idle"
  /\ \E b \in bags :
       LET a == [offset |-> ZodDefault(b.offset, Num(0)),
                 count |-> ZodDefault(b.count, Num(100)),
                 filter |-> ZodOptional(b.filter)]
       IN Invoke("list_strings_filter", a,
                 TextRequest("GET", "strings/filter", list_strings_filter_params(a)),
                 "list_strings_filter:lines", <<>>)

list_strings_filter_done ==
  /\ op = "list_strings_filter" /\ Settled("list_strings_filter:lines")
  /\ LET lines == getLines("strings/filter", response)
     IN Complete(IF lines.c = "throw" THEN lines
                 ELSE Return(JoinText(lines.v, <<"\n">>)), locals)
  /\ UNCHANGED fetched

(***************************************************************************)
(* patch_bytes.                                                            *)
(***************************************************************************)
patch_bytes_params(a) ==
  [address |-> Str(a.address), data |-> Str(a.data),
   save_to_file |-> Num(IF a.save_to_file THEN 1 ELSE 0)]

\* `msg += text` when the condition holds
AppendIf(cond, msg, text) == IF cond THEN msg \o text ELSE msg

\* the marker appended for every status, ok included
patch_bytes_marker_always(status) == <<" (PARTIAL WRITE)">>

\* the marker appended to the summary line for status "partial"
patch_bytes_marker(status) ==
  IF status = Str(<<"partial">>) THEN <<" (PARTIAL WRITE)">> ELSE <<>>

patch_bytes_render(address, result) ==
  IF ~Truthy(result) THEN Return(<<"Error: no response">>)
  ELSE IF InThrows(result) THEN TypeError
  ELSE IF In("error", result) THEN Return(<<"Error: ">> \o ToStr(Get(result, "error")))
  ELSE LET status == Get(result, "status")
       IN IF status = Str(<<"ok">>) \/ status = Str(<<"partial">>)
          THEN LET orig == OrElse(Get(result, "original_bytes"), Str(<<>>))
                   patched == OrElse(Get(result, "patched_bytes"), Str(<<>>))
                   written == OrElse(Get(result, "bytes_written"), Num(0))
                   requested == OrElse(Get(result, "bytes_requested"), Num(0))
                   saved == OrElse(Get(result, "saved_to_file"), Bool(FALSE))
                   savedPath == OrElse(Get(result, "saved_path"), Str(<<>>))
                   warning == OrElse(Get(result, "warning"), Str(<<>>))
                   msg0 == <<"Patched ">> \o ToStr(written) \o <<"/">>
                           \o ToStr(requested) \o <<" bytes", " at ">> \o address
                           \o patch_bytes_marker(status)
                   msg1 == AppendIf(Truthy(warning), msg0,
                                    <<"\n", "Warning: ">> \o ToStr(warning))
                   msg2 == AppendIf(Truthy(orig), msg1,
                                    <<"\n", "Original: ">> \o ToStr(orig))
                   msg3 == AppendIf(Truthy(patched), msg2,
                                    <<"\n", "Patched:  ">> \o ToStr(patched))
               IN Return(AppendIf(Truthy(saved), msg3,
                                  <<"\n", "Saved to file: ">> \o ToStr(savedPath)))
          ELSE Return(JsonStringify(result))

patch_bytes_call(bags) ==
  /\ stage = "serving" /\ pc = "idle"
  /\ \E a \in bags :
       Invoke("patch_bytes", a, Request("GET", "patch", patch_bytes_params(a)),
              "patch_bytes:json", <<>>)

patch_bytes_done ==
  /\ op = "patch_bytes" /\ Settled("patch_bytes:json")
  /\ Complete(patch_bytes_render(args.address, getJson("patch", response).v), locals)
  /\ UNCHANGED fetched

(***************************************************************************)
(* Direct calls of the client's GET methods.                               *)
(***************************************************************************)
ClientCall(method, req) ==
  /\ stage = "serving" /\ pc = "idle"
  /\ op' = method /\ args' = <<>> /\ pc' = "client:await" /\ locals' = <<>>
  /\ pending' = req /\ sent' = <<req>> /\ response' = NoOutcome
  /\ UNCHANGED <<stage, argv, env, config, fetched, payload, ret, received, other>>

ClientSettle(c) ==
  /\ Settled("client:await")
  /\ ret' = c /\ pc' = IF c.c = "throw" THEN "thrown" ELSE "done"
  /\ pending' = NoRequest
  /\ UNCHANGED <<stage, argv, env, config, op, args, locals, response, sent,
                 fetched, payload, received, other>>

getText_call(endpoints) ==
  /\ stage = "serving" /\ pc = "idle"
  /\ \E endpoint \in endpoints :
       ClientCall("getText", TextRequest("GET", endpoint, <<>>))

getText_settle ==
  op = "getText" /\ ClientSettle(getText(pending.endpoint, response))

getJson_call(endpoints) ==
  /\ stage = "serving" /\ pc = "idle"
  /\ \E endpoint \in endpoints :
       ClientCall("getJson", Request("GET", endpoint, <<>>))

getJson_settle ==
  op = "getJson" /\ ClientSettle(getJson(pending.endpoint, response))

getLines_call(endpoints) ==
  /\ stage = "serving" /\ pc = "idle"
  /\ \E endpoint \in endpoints :
       ClientCall("getLines", TextRequest("GET", endpoint, <<>>))

getLines_settle ==
  op = "getLines" /\ ClientSettle(getLines(pending.endpoint, response))

\* the body of a POST travels in the request record under `body`
post_call(endpoints) ==
  /\ stage = "serving" /\ pc = "idle"
  /\ \E endpoint \in endpoints, data \in {Str(<<"a">>), Obj([oldName |-> Str(<<"a">>)])} :
       ClientCall("post", TextRequest("POST", endpoint, [body |-> data]))

post_settle ==
  op = "post" /\ ClientSettle(post(pending.endpoint, response))

(***************************************************************************)
(* The remote service and the network: the outcomes a request can have.    *)
(***************************************************************************)
OK == <<"OK">>
ErrorEnvelope == Obj([error |-> Str(<<"boom">>)])

\* bodies any JSON endpoint may answer with: null, text that is not JSON,
\* an empty array, an empty object, an error envelope
CommonBodies == {Null, Str(<<"ok">>), Arr(<<>>), EmptyObj, ErrorEnvelope}

\* an object field that may be missing
Field(key, values) == {<<>>} \cup {key :> v : v \in values}

\* what the remote reports about a patch
PatchReports ==
  {Obj(st @@ w @@ r @@ sv @@ sp @@ wa @@ du) :
     st \in Field("status", {Str(<<"ok">>), Str(<<"partial">>), Str(<<"failed">>)}),
     w \in Field("bytes_written", {Num(2)}),
     r \in Field("bytes_requested", {Num(4)}),
     sv \in Field("saved_to_file", {Bool(TRUE), Bool(FALSE)}),
     sp \in Field("saved_path", {Str(<<"/tmp/a.bin">>)}),
     wa \in Field("warning", {Str(<<"read-only segment">>)}),
     du \in {<<>>, [original_bytes |-> Str(<<"90 90">>),
                     patched_bytes |-> Str(<<"cc cc">>)]}}

\* item j of the page that answers fetch number n
StringItem(n, j) ==
  Obj([address |-> Str(<<"0x", ToString(n), ToString(j)>>), length |-> Num(j),
       type |-> Str(<<"ascii">>), value |-> Str(<<"s">>)])

StringsPage(n, k) == Obj([strings |-> Arr([j \in 1..k |-> StringItem(n, j)])])

JsonBodies(endpoint, n) ==
  CommonBodies \cup
  CASE endpoint = "status" ->
         {Obj([filename |-> Str(<<"a.bin">>)]), Obj([filename |-> Str(<<>>)])}
    [] endpoint = "decompile" ->
         {Obj([decompiled |-> Str(<<"int main()", "\n", "{}">>)])}
    [] endpoint = "il" ->
         {Obj([il |-> Str(<<"IL">>)]), Obj([error |-> Obj([code |-> Num(1)])])}
    [] endpoint = "assembly" -> {Obj([assembly |-> Str(<<"ret">>)])}
    [] endpoint = "getDataDecl" ->
         {Obj([decl |-> Str(<<"int x;">>), hexdump |-> Str(<<"00">>),
               address |-> Str(<<"0x10">>), name |-> Str(<<"x">>)]),
          Obj([hexdump |-> Str(<<"00">>)])}
    [] endpoint = "getStackFrameVars" ->
         {Obj([stack_frame_vars |-> Arr(<<Str(<<"a">>), Str(<<"b">>)>>)]),
          Obj([stack_frame_vars |-> Str(<<"a">>)])}
    [] endpoint = "setFunctionPrototype" ->
         {Obj([status |-> Str(<<"ok">>), address |-> Str(<<"0x10">>),
               applied_type |-> Str(<<"int f()">>)]),
          Obj([address |-> Str(<<"0x10">>)])}
    [] endpoint = "renameVariables" ->
         {Obj([total |-> Num(t), renamed |-> Num(r)]) : t \in 0..2, r \in 0..2}
         \cup {Obj([total |-> Num(2)])}
    [] endpoint = "strings" ->
         {StringsPage(n, k) : k \in 0..MaxPage}
         \cup {Obj([strings |-> Arr(<<EmptyObj>>)]), Obj([strings |-> Arr(<<Null>>)]),
               Obj([strings |-> Str(<<"none">>)])}
    [] endpoint = "patch" -> PatchReports
    [] endpoint = "sections" ->
         {Obj([sections |->
                 Arr(<<Obj([start |-> Str(<<"0x0">>), end |-> Str(<<"0x10">>),
                            size |-> Num(16), name |-> Str(<<".text">>),
                            semantics |-> Str(<<"rx">>)]),
                       EmptyObj>>)]),
          Obj([sections |-> Arr(<<Null>>)])}
    [] endpoint = "platforms" ->
         {Obj([platforms |-> Arr(<<>>)]), Obj([platforms |-> Null]),
          Obj([platforms |-> Arr(<<Str(<<"linux-x86_64">>), Str(<<"windows-x86">>)>>)]),
          Obj([platforms |-> Arr(<<Str(<<"Error">>), Null>>)]),
          Obj([platforms |-> Str(<<"linux-x86_64">>)])}
    [] endpoint = "makeFunctionAt" ->
         {Obj([status |-> Str(<<"ok">>), address |-> Str(<<"0x401000">>),
               name |-> Str(<<"sub_401000">>)]),
          Obj([status |-> Str(<<"exists">>), address |-> Str(<<"0x401000">>),
               name |-> Str(<<"main">>)]),
          Obj([address |-> Str(<<"0x401000">>)])}
    [] OTHER -> {}

TextBodies ==
  {Str(<<>>), Str(<<"a">>), Str(<<"a", "\n">>), Str(<<"a", "\n", "b">>),
   Str(<<" ", "a", " ", "b", "\n", " ">>)}

RECURSIVE ItemsText(_)
\* k items, each ended by a newline
ItemsText(k) ==
  IF k = 0 THEN <<>> ELSE ItemsText(k - 1) \o <<"item", ToString(k), "\n">>

ListingEndpoints == {"methods", "searchFunctions", "strings", "strings/filter"}

\* what a listing endpoint answers: some items, whatever limit was asked for
ListingBodies == {Str(ItemsText(k)) : k \in 0..MaxPage}

Bodies(req, n) ==
  IF req.responseType = "text"
  THEN IF req.endpoint \in ListingEndpoints /\ req.params # <<>>
       THEN ListingBodies ELSE TextBodies
  ELSE JsonBodies(req.endpoint, n)

Failures ==
  {NoResponse, SetupFailure,
   Response(500, <<"Internal Server Error">>, ErrorEnvelope),
   Response(404, <<"Not Found">>, Str(<<"nope">>))}

\* the outcomes of request number n of an invocation
Outcomes(req, n) == {Response(200, OK, d) : d \in Bodies(req, n)} \cup Failures

\* the same with more statuses on either side of the 2xx range
AnyOutcomes(req, n) ==
  Outcomes(req, n)
  \cup {Response(st, <<"Status">>, d) : st \in {204, 299, 300, 404}, d \in Bodies(req, n)}

RemoteWith(outs) ==
  /\ pending # NoRequest /\ response = NoOutcome
  /\ \E out \in outs : response' = out
  /\ UNCHANGED <<stage, argv, env, config, op, args, pc, locals, pending, sent,
                 fetched, payload, ret, received, other>>

Remote == RemoteWith(Outcomes(pending, Len(sent)))

\* the remote or the network answers: anything but silence
Answer == RemoteWith(Outcomes(pending, Len(sent)) \ {NoResponse})

\* a client created without a timeout: silence never ends
Timeout_unset == FALSE /\ UNCHANGED vars

\* the request's timer (timeout: 30000) ends a request nobody answered
Timeout == RemoteWith({NoResponse})
RemoteAny == RemoteWith(AnyOutcomes(pending, Len(sent)))

\* how many items a remote holding at most MaxData strings may answer with:
\* a slice of its data for a proper window, anything it holds for a window
\* without meaning (limit <= 0 or offset < 0)
FinitePages(offset, limit) ==
  IF offset >= 0 /\ limit > 0
  THEN {k \in 0..MaxData : k <= limit /\ offset + k <= MaxData}
  ELSE 0..MaxData

\* the strings endpoint of a remote holding a finite data set
FiniteRemote ==
  /\ pending # NoRequest /\ pending.endpoint = "strings"
  /\ RemoteWith({Response(200, OK, StringsPage(Len(sent), k)) :
                   k \in FinitePages(pending.params.offset.v, pending.params.limit.v)}
                \cup Failures)

\* a few outcomes of a request: silence, an error envelope, an answer
FewOutcomes(req) ==
  {NoResponse, Response(200, OK, ErrorEnvelope)}
  \cup {Response(200, OK, d) : d \in JsonBodies(req.endpoint, 1) \ CommonBodies}

\* the same arrival, kept in the invocation's log
RemoteLogged ==
  /\ pending # NoRequest /\ response = NoOutcome
  /\ \E out \in FewOutcomes(pending) :
       response' = out /\ received' = Append(received, out)
  /\ UNCHANGED <<stage, argv, env, config, op, args, pc, locals, pending, sent,
                 fetched, payload, ret, other>>

\* everything that belongs to the running invocation
Slot ==
  [op |-> op, args |-> args, pc |-> pc, locals |-> locals, pending |-> pending,
   response |-> response, sent |-> sent, fetched |-> fetched,
   payload |-> payload, ret |-> ret, received |-> received]

IdleSlot ==
  [op |-> "none", args |-> <<>>, pc |-> "idle", locals |-> <<>>,
   pending |-> NoRequest, response |-> NoOutcome, sent |-> <<>>,
   fetched |-> <<>>, payload |-> NoPayload, ret |-> NoRet, received |-> <<>>]

\* the switch with one outcome buffer for both invocations
Switch_shared_response ==
  /\ stage = "serving" /\ other # Slot
  /\ other' = Slot
  /\ op' = other.op /\ args' = other.args /\ pc' = other.pc
  /\ locals' = other.locals /\ pending' = other.pending
  /\ sent' = other.sent /\ fetched' = other.fetched
  /\ payload' = other.payload /\ ret' = other.ret /\ received' = other.received
  /\ UNCHANGED <<stage, argv, env, config, response>>

\* the event loop turns to the other invocation: each handler call is a
\* closure with its own arguments and locals, sharing only the client
Switch ==
  /\ stage = "serving" /\ other # Slot
  /\ other' = Slot
  /\ op' = other.op /\ args' = other.args /\ pc' = other.pc
  /\ locals' = other.locals /\ pending' = other.pending
  /\ response' = other.response /\ sent' = other.sent /\ fetched' = other.fetched
  /\ payload' = other.payload /\ ret' = other.ret /\ received' = other.received
  /\ UNCHANGED <<stage, argv, env, config>>

\* the result goes back to the caller; the next invocation may start
Deliver ==
  /\ pc \in {"done", "thrown"}
  /\ op' = "none" /\ args' = <<>> /\ pc' = "idle" /\ locals' = <<>>
  /\ pending' = NoRequest /\ response' = NoOutcome /\ sent' = <<>>
  /\ fetched' = <<>> /\ payload' = NoPayload /\ ret' = NoRet /\ received' = <<>>
  /\ UNCHANGED <<stage, argv, env, config, other>>

\* main(): parseArgs, then createClient(host, port) and registerTools
Main ==
  /\ stage = "boot"
  /\ LET r == parseArgs(argv, env)
     IN IF r.exit THEN stage' = "exited" /\ UNCHANGED config
        ELSE stage' = "serving" /\ config' = [host |-> r.host, port |-> r.port]
  /\ UNCHANGED <<argv, env, op, args, pc, locals, pending, response, sent,
                 fetched, payload, ret, received, other>>

(***************************************************************************)
(* Inputs.                                                                 *)
(***************************************************************************)
SeqsUpTo(S, n) == UNION {[1..k -> S] : k \in 0..n}

IdChars == {" ", "0", "x", "X"}
Hex401000 == <<"0", "x", "4", "0", "1", "0", "0", "0">>
UpperHex401000 == <<"0", "X", "4", "0", "1", "0", "0", "0">>
Dec4198400 == <<"4", "1", "9", "8", "4", "0", "0">>
MainName == <<"m", "a", "i", "n">>
SampleIds == {Hex401000, UpperHex401000, Dec4198400, MainName,
              <<" ", "m", "a", "i", "n", " ">>}
AllIds == SeqsUpTo(IdChars, MaxIdLen) \cup SampleIds

NameArgs(ids) == {[name |-> id] : id \in ids}
GetIlArgs(ids, views) ==
  {[name_or_address |-> id, view |-> w[1], ssa |-> w[2]] : id \in ids, w \in views}
AllViews == {"hlil", "mlil", "llil"} \X BOOLEAN
LengthArgs(ids) == {[name_or_address |-> id, length |-> n] : id \in ids, n \in {-1, 16}}
FunctionArgs(ids) == {[function_identifier |-> id] : id \in ids}
PrototypeArgs(ids) ==
  {[name_or_address |-> id, prototype |-> <<"int f()">>] : id \in ids}

JsonChars == {"[", "]", "1", ",", " "}
EmptyObjectText == <<"{", "}">>
ObjectText == <<"{", "\"", "a", "\"", ":", "\"", "b", "\"", "}">>
PairsText == <<"a", ":", "b">>
JsonTexts == SeqsUpTo(JsonChars, MaxJsonLen) \cup {EmptyObjectText, ObjectText}
\* an optional string argument: absent, empty, or one of texts
Optional(texts) == {Undef, Str(<<>>)} \cup {Str(t) : t \in texts}
FewJsonTexts == {<<"[", "]">>, <<"[">>, ObjectText}
RenameArgs(ids, renames, mappings) ==
  {[function_identifier |-> id, renames_json |-> r, mapping_json |-> m, pairs |-> p] :
     id \in ids, r \in Optional(renames), m \in Optional(mappings),
     p \in Optional({PairsText})}

PageArgs == [offset : {0, 2}, limit : 0..MaxPage]
CountArgs == [offset : {0, 2}, count : 0..MaxPage]
QueryArgs(ids) == [query : ids, offset : {0}, limit : {MaxPage}]

PatchArgs ==
  [address : {Hex401000}, data : {<<"9090">>}, save_to_file : BOOLEAN]

\* an argument bag before the schema: an optional field may be missing
PlatformBags == [address : {Hex401000}, platform : Optional({<<"linux-x86_64">>})]
FilterBags ==
  [offset : {Undef, Num(2)}, count : {Undef, Num(2)}, filter : Optional({<<"a">>})]

BatchArgs(sizes) == {[batch_size |-> n] : n \in sizes}

Tokens == {OptHost, OptPort, OptHelp, OptH, <<"h", "1">>, <<"8", "0">>, <<"x">>}
Environments ==
  {[host |-> h, port |-> p] :
     h \in {Undef, Str(<<>>), Str(<<"h", "2">>)},
     p \in {Undef, Str(<<"9", "0">>), Str(<<"x">>), Str(<<"0">>)}}

(***************************************************************************)
(* Specifications.                                                         *)
(***************************************************************************)
Idle ==
  /\ op = "none" /\ args = <<>> /\ pc = "idle" /\ locals = <<>>
  /\ pending = NoRequest /\ response = NoOutcome /\ sent = <<>>
  /\ fetched = <<>> /\ payload = NoPayload /\ ret = NoRet
  /\ received = <<>> /\ other = IdleSlot

\* the process is started without arguments and without environment settings
Init ==
  /\ stage = "boot" /\ argv = <<>> /\ env = NoEnv /\ config = NoConfig
  /\ Idle

\* the process is started with any command line and environment
InitBoot ==
  /\ stage = "boot" /\ config = NoConfig
  /\ argv \in SeqsUpTo(Tokens, MaxArgs)
  /\ env \in Environments
  /\ Idle

NextBoot == Main

SpecBoot == InitBoot /\ [][NextBoot]_vars

\* the tools that take a name, an address or a query, over all identifiers
NextIdent ==
  \/ Main
  \/ get_il_call(GetIlArgs(AllIds, {<<"hlil", FALSE>>}))
  \/ get_il_status
  \/ get_il_done
  \/ fetch_disassembly_call(NameArgs(AllIds))
  \/ fetch_disassembly_status
  \/ fetch_disassembly_done
  \/ hexdump_data_call(LengthArgs(AllIds))
  \/ hexdump_data_done
  \/ get_data_decl_call(LengthArgs(AllIds))
  \/ get_data_decl_done
  \/ get_stack_frame_vars_call(FunctionArgs(AllIds))
  \/ get_stack_frame_vars_done
  \/ set_function_prototype_call(PrototypeArgs(AllIds))
  \/ set_function_prototype_done
  \/ rename_multi_variables_call(RenameArgs(AllIds, {}, {}))
  \/ rename_multi_variables_done
  \/ search_functions_by_name_call(QueryArgs(AllIds))
  \/ search_functions_by_name_done
  \/ Remote
  \/ Deliver

SpecIdent == Init /\ [][NextIdent]_vars

\* rename_multi_variables over all texts for either JSON argument
NextRename ==
  \/ Main
  \/ rename_multi_variables_call(
       RenameArgs({MainName}, JsonTexts, FewJsonTexts)
       \cup RenameArgs({MainName}, FewJsonTexts, JsonTexts))
  \/ rename_multi_variables_done
  \/ Remote
  \/ Deliver

SpecRename == Init /\ [][NextRename]_vars

\* the queries that may find nothing and the tools with optional arguments
NextQuery ==
  \/ Main
  \/ get_comment_call({Hex401000})
  \/ get_comment_done
  \/ get_function_comment_call({MainName})
  \/ get_function_comment_done
  \/ list_platforms_call
  \/ list_platforms_done
  \/ make_function_at_call(PlatformBags)
  \/ make_function_at_done
  \/ list_strings_filter_call(FilterBags)
  \/ list_strings_filter_done
  \/ rename_multi_variables_call(RenameArgs({MainName}, FewJsonTexts, FewJsonTexts))
  \/ rename_multi_variables_done
  \/ Remote
  \/ Deliver

SpecQuery == Init /\ [][NextQuery]_vars

\* list_all_strings over all batch sizes
NextStrings ==
  \/ Main
  \/ list_all_strings_call(BatchArgs(-1..MaxPage))
  \/ list_all_strings_page
  \/ Remote
  \/ Deliver

SpecStrings == Init /\ [][NextStrings]_vars

\* list_all_strings against a remote holding a finite data set
NextFinite ==
  \/ Main
  \/ list_all_strings_call(BatchArgs(0..MaxPage))
  \/ list_all_strings_page
  \/ list_all_strings_again
  \/ FiniteRemote
  \/ Deliver

SpecFinite ==
  /\ Init /\ [][NextFinite]_vars
  /\ WF_vars(FiniteRemote)
  /\ WF_vars(list_all_strings_page \/ list_all_strings_again)

\* the client's GET methods over all outcomes
NextClient ==
  \/ Main
  \/ getText_call({"status", "strings"})
  \/ getText_settle
  \/ getJson_call({"status", "strings"})
  \/ getJson_settle
  \/ getLines_call({"status", "strings"})
  \/ getLines_settle
  \/ post_call({"renameFunction"})
  \/ post_settle
  \/ RemoteAny
  \/ Deliver

SpecClient == Init /\ [][NextClient]_vars

\* every tool, on a few arguments each
Next ==
  \/ Main
  \/ decompile_function_call(NameArgs(SampleIds))
  \/ decompile_function_status
  \/ decompile_function_done
  \/ get_il_call(GetIlArgs(SampleIds, AllViews))
  \/ get_il_status
  \/ get_il_done
  \/ fetch_disassembly_call(NameArgs(SampleIds))
  \/ fetch_disassembly_status
  \/ fetch_disassembly_done
  \/ hexdump_data_call(LengthArgs(SampleIds))
  \/ hexdump_data_done
  \/ get_data_decl_call(LengthArgs(SampleIds))
  \/ get_data_decl_done
  \/ get_stack_frame_vars_call(FunctionArgs(SampleIds))
  \/ get_stack_frame_vars_done
  \/ set_function_prototype_call(PrototypeArgs(SampleIds))
  \/ set_function_prototype_done
  \/ rename_multi_variables_call(
       RenameArgs({MainName, Hex401000}, FewJsonTexts, FewJsonTexts))
  \/ rename_multi_variables_done
  \/ list_all_strings_call(BatchArgs({1, 2}))
  \/ list_all_strings_page
  \/ Remote
  \/ Deliver

Spec == Init /\ [][Next]_vars

\* the paginated listings
NextListing ==
  \/ Main
  \/ list_methods_call(PageArgs)
  \/ list_methods_status
  \/ list_methods_done
  \/ list_strings_call(CountArgs)
  \/ list_strings_done
  \/ search_functions_by_name_call(QueryArgs({<<>>, MainName}))
  \/ search_functions_by_name_done
  \/ Remote
  \/ Deliver

SpecListing == Init /\ [][NextListing]_vars

\* the tools that show a File: label
NextFile ==
  \/ Main
  \/ list_methods_call(PageArgs)
  \/ list_methods_status
  \/ list_methods_done
  \/ decompile_function_call(NameArgs({MainName}))
  \/ decompile_function_status
  \/ decompile_function_done
  \/ get_il_call(GetIlArgs({MainName}, AllViews))
  \/ get_il_status
  \/ get_il_done
  \/ fetch_disassembly_call(NameArgs({MainName}))
  \/ fetch_disassembly_status
  \/ fetch_disassembly_done
  \/ list_sections_call(PageArgs)
  \/ list_sections_json
  \/ list_sections_status
  \/ Remote
  \/ Deliver

SpecFile == Init /\ [][NextFile]_vars

\* single-round-trip tools against a remote that may stay silent: only the
\* timer and the handlers' continuations are sure to run
NextTimeout ==
  \/ Main
  \/ hexdump_data_call(LengthArgs({MainName}))
  \/ hexdump_data_done
  \/ get_data_decl_call(LengthArgs({MainName}))
  \/ get_data_decl_done
  \/ patch_bytes_call(PatchArgs)
  \/ patch_bytes_done
  \/ Timeout
  \/ Answer
  \/ Deliver

SpecTimeout ==
  /\ Init /\ [][NextTimeout]_vars
  /\ WF_vars(Timeout)
  /\ WF_vars(hexdump_data_done \/ get_data_decl_done \/ patch_bytes_done)

\* two invocations at a time, interleaved at their awaits
NextConcurrent ==
  \/ Main
  \/ decompile_function_call(NameArgs({MainName, Hex401000}))
  \/ decompile_function_status
  \/ decompile_function_done
  \/ get_data_decl_call(LengthArgs({MainName}))
  \/ get_data_decl_done
  \/ RemoteLogged
  \/ Switch
  \/ Deliver

SpecConcurrent == Init /\ [][NextConcurrent]_vars

\* patch_bytes over the reports the remote can make
NextPatch ==
  \/ Main
  \/ patch_bytes_call(PatchArgs)
  \/ patch_bytes_done
  \/ Remote
  \/ Deliver

SpecPatch == Init /\ [][NextPatch]_vars

(***************************************************************************)
(* Properties.                                                             *)
(***************************************************************************)
\* the classification rule as the specification words it
ClaimedAddress(s) ==
  LET t == ToLowerCase(Trim(s))
  IN \/ Len(t) >= 2 /\ t[1] = "0" /\ t[2] = "x"
     \/ t # <<>> /\ \A i \in 1..Len(t) : t[i] \in {"0", "1", "2", "3", "4", "5", "6", "7", "8", "9"}

DualModeTools == {"get_il", "rename_multi_variables", "hexdump_data",
                  "get_data_decl", "get_stack_frame_vars",
                  "set_function_prototype"}

\* the identifier argument of the running tool
Identifier ==
  IF op \in {"rename_multi_variables", "get_stack_frame_vars"}
  THEN args.function_identifier ELSE args.name_or_address

\* the running tool has issued its own request (the one after any status query)
OwnRequestSent == sent # <<>> /\ sent[Len(sent)].endpoint # "status"
OwnParams == sent[Len(sent)].params
NameKey == IF op = "rename_multi_variables" THEN "functionName" ELSE "name"

\* C1: in every tool that takes a name or an address, the request carries
\* the address key iff the identifier, trimmed and lower-cased, starts with
\* "0x" or is all decimal digits, and the name key otherwise.
C1_ClassificationParity ==
  (op \in DualModeTools /\ OwnRequestSent) =>
    IF ClaimedAddress(Identifier)
    THEN "address" \in DOMAIN OwnParams /\ NameKey \notin DOMAIN OwnParams
    ELSE NameKey \in DOMAIN OwnParams /\ "address" \notin DOMAIN OwnParams

C3_NoHandlerThrows == pc # "thrown"

ClientMethods == {"getText", "getJson", "getLines"}
IsErrorString(text) == text # <<>> /\ text[1] = "Error: "

\* C4: the GET methods never raise, and against an unreachable host getText
\* returns an error string, getJson an object with an error field, and
\* getLines exactly one line, which is an error string.
C4_GetNeverRaises ==
  op \in ClientMethods =>
    /\ pc # "thrown"
    /\ (pc = "done" /\ response.k = "noresponse") =>
         /\ ret.c = "return"
         /\ op = "getText" => IsErrorString(ret.v)
         /\ op = "getJson" =>
              /\ ret.v.t = "object" /\ "error" \in DOMAIN ret.v.v
              /\ ret.v.v.error.t = "string"
         /\ op = "getLines" => Len(ret.v) = 1 /\ IsErrorString(ret.v[1])

C4_Witness == op = "getLines" /\ pc = "done" /\ response.k = "noresponse"

\* size of the strings array of a fetched page; -1 when it has none
PageSize(data) ==
  IF data.t = "object" /\ "strings" \in DOMAIN data.v /\ data.v.strings.t = "array"
  THEN Len(data.v.strings.v) ELSE -1

\* the page is an array of records
RecordPage(data) ==
  /\ PageSize(data) >= 0
  /\ \A j \in 1..PageSize(data) : data.v.strings.v[j].t = "object"

RECURSIVE Arrived(_)
\* the records of pages, in arrival order
Arrived(pages) ==
  IF pages = <<>> THEN <<>>
  ELSE (IF RecordPage(pages[1]) THEN pages[1].v.strings.v ELSE <<>>)
       \o Arrived(Tail(pages))

\* address, length, type and value of a record, tab-separated
RecordLine(item) ==
  IF DOMAIN item.v = {}
  THEN <<"\t", "undefined", "\t", "\t">>
  ELSE item.v.address.v \o <<"\t", ToString(item.v.length.v), "\t">>
       \o item.v.type.v \o <<"\t">> \o item.v.value.v

ArrivedLines(pages) ==
  [i \in 1..Len(Arrived(pages)) |-> RecordLine(Arrived(pages)[i])]

\* the first k pages are full pages of records for batch size n
FullPages(k, n) ==
  /\ Len(fetched) >= k
  /\ \A i \in 1..k : RecordPage(fetched[i]) /\ PageSize(fetched[i]) = n

\* C5: against pages of sizes [n, n, n, k] with k < n = batch_size,
\* list_all_strings makes exactly 4 fetches (it goes on after each full page
\* and stops after the short one) and returns the 3n + k records in arrival
\* order; a first page of size 0 ends it after 1 fetch with an empty result.
C5_AggregatesFourPages ==
  op = "list_all_strings" =>
    LET n == args.batch_size
    IN /\ (n >= 1 /\ Len(fetched) <= 3 /\ FullPages(Len(fetched), n)) =>
            pc = "list_all_strings:page" /\ Len(sent) = Len(fetched) + 1
       /\ (n >= 1 /\ Len(fetched) = 4 /\ FullPages(3, n) /\ RecordPage(fetched[4])
             /\ PageSize(fetched[4]) < n) =>
            /\ pc = "done" /\ Len(sent) = 4
            /\ Len(locals.results) = 3 * n + PageSize(fetched[4])
            /\ locals.results = ArrivedLines(fetched)
            /\ payload = Text(JoinText(ArrivedLines(fetched), <<"\n">>))
       /\ (fetched # <<>> /\ PageSize(fetched[1]) = 0) =>
            pc = "done" /\ Len(sent) = 1 /\ payload = Text(<<>>)

C5_Witness ==
  /\ op = "list_all_strings" /\ args.batch_size = 2 /\ pc = "done"
  /\ Len(fetched) = 4 /\ FullPages(3, 2) /\ PageSize(fetched[4]) = 1

\* C6: a failed page fetch, or a page without a recognizable strings array,
\* ends list_all_strings at once: no further fetch, and the payload is the
\* records of the earlier pages, as a normal result.
C6_StopsWithAccumulated ==
  (op = "list_all_strings" /\ fetched # <<>>
     /\ PageSize(fetched[Len(fetched)]) = -1) =>
    /\ pc = "done"
    /\ Len(sent) = Len(fetched)
    /\ payload = Text(JoinText(ArrivedLines(SubSeq(fetched, 1, Len(fetched) - 1)),
                               <<"\n">>))

Supplied(x) == x # Undef
Renaming == op = "rename_multi_variables"
NotValidJson(x) == Supplied(x) /\ ~IsJsonValue(x.v)
NotValidJsonPayload(name) == Text(<<"Error: ", name, " is not valid JSON">>)

\* C7: rename_multi_variables with none of mapping_json, renames_json and
\* pairs supplied returns a local validation error and makes no request.
C7_NothingSupplied ==
  (Renaming /\ ~Supplied(args.mapping_json) /\ ~Supplied(args.renames_json)
     /\ ~Supplied(args.pairs)) =>
    /\ pc = "done" /\ sent = <<>> /\ pending = NoRequest
    /\ payload.kind = "text" /\ payload.text[1] = "Error: provide "

C7_Witness ==
  /\ Renaming /\ pc = "done" /\ ~Supplied(args.mapping_json)
  /\ ~Supplied(args.renames_json) /\ ~Supplied(args.pairs)

\* C8 as claimed: whenever the supplied renames_json or the supplied
\* mapping_json is not valid JSON, the handler returns a validation error
\* naming that argument and sends nothing, whatever the other arguments hold.
C8_AnyInvalidJsonRejected ==
  (Renaming /\ (NotValidJson(args.renames_json) \/ NotValidJson(args.mapping_json))) =>
    /\ pc = "done" /\ sent = <<>>
    /\ \/ NotValidJson(args.renames_json)
            /\ payload = NotValidJsonPayload("renames_json")
       \/ NotValidJson(args.mapping_json)
            /\ payload = NotValidJsonPayload("mapping_json")

\* the alternative the handler looks at: renames_json when it is not empty,
\* otherwise mapping_json when that is not empty
SelectsRenames == Supplied(args.renames_json) /\ args.renames_json.v # <<>>
SelectsMapping ==
  ~SelectsRenames /\ Supplied(args.mapping_json) /\ args.mapping_json.v # <<>>

\* C8 amended: whenever the alternative the handler selects (renames_json
\* when not empty, otherwise mapping_json when not empty) is not valid JSON,
\* the handler returns a validation error naming that argument and sends
\* nothing, whatever the other arguments hold.
C8_SelectedInvalidJsonRejected ==
  Renaming =>
    /\ (SelectsRenames /\ ~IsJsonValue(args.renames_json.v)) =>
         pc = "done" /\ sent = <<>> /\ payload = NotValidJsonPayload("renames_json")
    /\ (SelectsMapping /\ ~IsJsonValue(args.mapping_json.v)) =>
         pc = "done" /\ sent = <<>> /\ payload = NotValidJsonPayload("mapping_json")

C8_Witness ==
  /\ Renaming /\ pc = "done" /\ SelectsMapping /\ Supplied(args.pairs)
  /\ ~IsJsonValue(args.mapping_json.v)

\* exactly one alternative is supplied, under `key`, and it is a valid one
OnlyValid(key) ==
  LET alt == [renames |-> args.renames_json, mapping |-> args.mapping_json,
              pairs |-> args.pairs]
  IN /\ \A k \in {"renames", "mapping", "pairs"} : Supplied(alt[k]) <=> k = key
     /\ alt[key].v # <<>>
     /\ key # "pairs" => IsJsonValue(alt[key].v)

Alternative(key) ==
  CASE key = "renames" -> args.renames_json
    [] key = "mapping" -> args.mapping_json
    [] key = "pairs" -> args.pairs

\* the remote answered 2xx with an object carrying the two counts
CountsAnswer ==
  /\ response.k = "response" /\ response.status = 200
  /\ response.data.t = "object"
  /\ DOMAIN response.data.v = {"total", "renamed"}

\* C9: with exactly one valid alternative, rename_multi_variables issues
\* exactly one request, to renameVariables, carrying that alternative
\* unchanged, and its payload reports the remote's renamed/total counts.
C9_OneAlternativeForwarded ==
  Renaming =>
    \A key \in {"renames", "mapping", "pairs"} :
      OnlyValid(key) =>
        /\ Len(sent) = 1
        /\ sent[1].method = "GET" /\ sent[1].endpoint = "renameVariables"
        /\ DOMAIN sent[1].params \cap {"renames", "mapping", "pairs"} = {key}
        /\ sent[1].params[key] = Alternative(key)
        /\ (pc = "done" /\ CountsAnswer) =>
             payload = Text(<<"Batch rename: ", ToString(response.data.v.renamed.v),
                              "/", ToString(response.data.v.total.v), " applied">>)

C9_Witness ==
  /\ Renaming /\ OnlyValid("mapping") /\ pc = "done" /\ CountsAnswer
  /\ response.data.v.renamed.v = 1 /\ response.data.v.total.v = 2

\* C10: a command-line value beats the environment variable, which beats
\* the default.
C10_CommandLineFirst ==
  stage = "serving" =>
    /\ argv = <<OptHost, <<"h", "1">>>> => config.host = <<"h", "1">>
    /\ argv = <<OptPort, <<"8", "0">>>> => config.port = Num(80)
    /\ (argv = <<>> /\ env.host = Str(<<"h", "2">>)) => config.host = <<"h", "2">>
    /\ (argv = <<>> /\ env.port = Str(<<"9", "0">>)) => config.port = Num(90)
    /\ (argv = <<>> /\ env = NoEnv) => config = DefaultConfig

\* the remote answered with a status outside 200..299
NonOk == response.k = "response" /\ (response.status < 200 \/ response.status >= 300)

\* the body is an object carrying an error field
ErrorBody(data) == data.t = "object" /\ "error" \in DOMAIN data.v

\* an object holding an error message and nothing else
Synthesized(v) == v.t = "object" /\ DOMAIN v.v = {"error"} /\ v.v.error.t = "string"

\* C11: on a non-2xx response whose body is an object carrying an error
\* field, getJson returns that body unchanged; on a non-2xx response without
\* such a body it returns a synthesized object holding an error message.
C11_ErrorBodyPassedThrough ==
  (op = "getJson" /\ pc = "done" /\ NonOk) =>
    /\ ret.c = "return"
    /\ IF ErrorBody(response.data) THEN ret.v = response.data ELSE Synthesized(ret.v)

\* text holds part as a run of consecutive pieces
Embeds(text, part) ==
  \E i \in 1..(Len(text) + 1) :
    i + Len(part) - 1 <= Len(text) /\ SubSeq(text, i, i + Len(part) - 1) = part

\* C12: on a non-2xx response getText returns a string that embeds the status
\* code and the response body; on a 2xx response it returns the body as it is.
C12_TextEmbedsStatusAndBody ==
  (op = "getText" /\ pc = "done" /\ response.k = "response"
     /\ response.data.t = "string") =>
    /\ ret.c = "return"
    /\ IF NonOk
       THEN /\ Embeds(ret.v, <<ToString(response.status)>>)
            /\ Embeds(ret.v, response.data.v)
       ELSE ret.v = response.data.v

\* the tools that read a structured response with getJson
StructuredTools ==
  {"decompile_function", "get_il", "fetch_disassembly", "get_data_decl",
   "get_stack_frame_vars", "set_function_prototype", "rename_multi_variables"}

\* the tool's own request was answered by a transport failure or by an
\* error envelope
OwnRequestFailed ==
  /\ op \in StructuredTools /\ pc = "done"
  /\ sent # <<>> /\ sent[Len(sent)].endpoint # "status"
  /\ response = NoResponse \/ response = Response(200, OK, ErrorEnvelope)

\* the error message of the response, as getJson hands it to the tool
FailureMessage ==
  IF response = NoResponse THEN <<"Request failed: ">> \o NoResponseHint
  ELSE response.data.v.error.v

\* text ends with the pieces of tail
EndsWith(text, tail) ==
  /\ Len(text) >= Len(tail)
  /\ SubSeq(text, Len(text) - Len(tail) + 1, Len(text)) = tail

\* C13: every tool that reads a structured response renders a transport
\* failure and an error envelope as a text payload "Error: <message>", where
\* <message> is the error message of the response.
C13_ErrorsRenderedAsErrorLine ==
  OwnRequestFailed =>
    payload.kind = "text" /\ EndsWith(payload.text, <<"Error: ">> \o FailureMessage)

\* the remote reported a patch with the given status
Reported(status) ==
  /\ op = "patch_bytes" /\ pc = "done"
  /\ response.k = "response" /\ response.status = 200
  /\ response.data.t = "object" /\ "error" \notin DOMAIN response.data.v
  /\ Get(response.data, "status") = Str(<<status>>)

\* "<w>/<r> bytes" for the counts of the report
CountsText ==
  <<ToString(Get(response.data, "bytes_written").v), "/",
    ToString(Get(response.data, "bytes_requested").v), " bytes">>

HasCounts ==
  /\ Get(response.data, "bytes_written") # Undef
  /\ Get(response.data, "bytes_requested") # Undef

\* C14: for status "partial" with bytes_written w and bytes_requested r the
\* patch_bytes payload contains "w/r bytes" and the marker "(PARTIAL WRITE)";
\* for status "ok" it contains "w/r bytes" and never the marker; the save path
\* appears exactly when the remote reports that the file was saved.
C14_PartialWriteMarked ==
  /\ (Reported("partial") /\ HasCounts) =>
       /\ Embeds(payload.text, CountsText)
       /\ Embeds(payload.text, <<" (PARTIAL WRITE)">>)
  /\ (Reported("ok") /\ HasCounts) => Embeds(payload.text, CountsText)
  /\ Reported("ok") => ~Embeds(payload.text, <<" (PARTIAL WRITE)">>)
  /\ ((Reported("ok") \/ Reported("partial"))
        /\ Get(response.data, "saved_path") # Undef) =>
       (Embeds(payload.text, Get(response.data, "saved_path").v)
          <=> Get(response.data, "saved_to_file") = Bool(TRUE))

C14_Witness ==
  /\ Reported("partial") /\ HasCounts
  /\ Get(response.data, "saved_to_file") = Bool(TRUE)
  /\ Get(response.data, "saved_path") # Undef

ListingTools == {"list_methods", "list_strings"}
Limit == IF op = "list_strings" THEN args.count ELSE args.limit

\* the number of newline atoms of a text
Newlines(text) == Cardinality({i \in 1..Len(text) : text[i] = "\n"})

\* the number of lines of a text: one per newline, and one more for an
\* unterminated last line
LineCount(text) ==
  Newlines(text) + (IF text # <<>> /\ text[Len(text)] # "\n" THEN 1 ELSE 0)

\* the listing request was answered 200 with at most `limit` items
PageWithinLimit ==
  /\ op \in ListingTools /\ pc = "done" /\ args.offset = 0
  /\ response.k = "response" /\ response.status = 200
  /\ \E k \in 0..Limit : response.data = Str(ItemsText(k))

\* C15: a paginated listing called with offset 0 and limit N, against a
\* remote that returns at most N newline-terminated items, returns a payload
\* of at most N lines.
C15_AtMostLimitLines ==
  PageWithinLimit => LineCount(payload.text) <= Limit

\* the required string argument of the running tool
RequiredString ==
  CASE op = "search_functions_by_name" -> args.query
    [] op = "fetch_disassembly" -> args.name
    [] OTHER -> Identifier

\* C16: every tool with a required string argument answers an empty string
\* for it with an explanatory payload and sends no request, as
\* search_functions_by_name does for an empty query.
C16_EmptyStringRejected ==
  (op # "none" /\ RequiredString = <<>>) =>
    /\ sent = <<>> /\ pending = NoRequest
    /\ pc = "done" /\ payload.kind = "text" /\ payload.text # <<>>

\* the tools that ask for the file name before their own request
StatusFirst == {"list_methods", "decompile_function", "get_il", "fetch_disassembly"}

OwnEndpoint ==
  CASE op = "list_methods" -> "methods"
    [] op = "decompile_function" -> "decompile"
    [] op = "get_il" -> "il"
    [] op = "fetch_disassembly" -> "assembly"

\* the status request failed, or its answer holds an error or no file name
NoFilename(out) ==
  \/ out.k # "response"
  \/ out.status < 200 \/ out.status >= 300
  \/ out.data.t # "object"
  \/ "filename" \notin DOMAIN out.data.v
  \/ out.data.v.filename = Str(<<>>)

NoneLabel == <<"File: ", "(none)">>
StartsWithNone(text) == Len(text) >= 2 /\ SubSeq(text, 1, 2) = NoneLabel

\* the status answer of a status-first tool is consumed by this step
StatusConsumed ==
  /\ op \in StatusFirst /\ Len(sent) = 1 /\ response # NoOutcome
  /\ pc' # pc

\* the sections of a list_sections invocation are records
SectionsAreRecords ==
  LET sections == Get(locals.data, "sections")
  IN sections.t = "array" /\ \A i \in 1..Len(sections.v) : sections.v[i].t = "object"

\* what one step does with a status answer that gives no file name
LabelIsBestEffort ==
  /\ (StatusConsumed /\ NoFilename(response)) =>
       /\ locals'.filename = <<"(none)">>
       /\ Len(sent') = 2 /\ sent'[2].endpoint = OwnEndpoint /\ pending' = sent'[2]
  /\ (op' \in StatusFirst /\ pc' = "done" /\ locals'.filename = <<"(none)">>) =>
       /\ StartsWithNone(payload'.text)
       /\ (op' = "list_methods" /\ response'.k = "response" /\ response'.status = 200)
            => payload'.text = NoneLabel \o <<"\n">> \o response'.data.v
       /\ (op' = "decompile_function" /\ response' = Response(200, OK, ErrorEnvelope))
            => EndsWith(payload'.text, <<"Error: ">> \o response'.data.v.error.v)
       /\ (op' = "fetch_disassembly" /\ response'.k = "response"
             /\ response'.status = 200 /\ response'.data.t = "object"
             /\ DOMAIN response'.data.v = {"assembly"})
            => EndsWith(payload'.text, response'.data.v.assembly.v)
  /\ (op = "list_sections" /\ pc = "list_sections:status" /\ response # NoOutcome
        /\ pc' # pc /\ NoFilename(response) /\ SectionsAreRecords) =>
       /\ pc' = "done" /\ StartsWithNone(payload'.text)
       /\ LineCount(payload'.text) = 1 + Len(Get(locals.data, "sections").v)

\* C17: the file-name lookup is best-effort.  In every tool that shows a
\* File: label, a status request that fails, or whose answer holds an error
\* or no file name, gives the label "(none)"; the tool's own request is still
\* sent and its result still returned.
C17_FilenameBestEffort == [][LabelIsBestEffort]_vars

C17_Witness ==
  /\ op = "list_sections" /\ pc = "done" /\ Len(sent) = 2
  /\ response = NoResponse /\ LineCount(payload.text) = 3

\* a request of the running invocation is waiting for its outcome
InFlight == pending # NoRequest /\ response = NoOutcome

\* a step that issues a further request of the running invocation
IssuesNext == sent # <<>> /\ sent' # sent /\ sent' # <<>>

RoundTripsInSequence ==
  /\ IssuesNext =>
       /\ ~InFlight /\ response # NoOutcome /\ pending = sent[Len(sent)]
       /\ sent' = Append(sent, pending') /\ response' = NoOutcome
  /\ op' = "list_all_strings" => Len(sent') <= Len(fetched') + 1

\* C18: within one invocation the round trips are strictly sequential.  A
\* further request is issued only after the outcome of the previous one has
\* arrived, for status-then-operation pairs and for the successive pages of
\* list_all_strings alike, so an invocation never has two requests in flight.
C18_SequentialRoundTrips == [][RoundTripsInSequence]_vars

C18_Witness ==
  /\ op = "list_all_strings" /\ Len(sent) = 3 /\ Len(fetched) = 2 /\ InFlight

SingleRoundTrip == {"hexdump_data", "get_data_decl", "patch_bytes"}

\* the request ended without an answer
TimedOut == op \in SingleRoundTrip /\ response = NoResponse

Completes == InFlight ~> ~InFlight
TimedOutReturns == TimedOut ~> (TimedOut /\ pc = "done" /\ payload.kind = "text")

\* C19: every request the client issues eventually completes, with a
\* response or with a failure value: a request the remote never answers is
\* ended by the default timeout and reported as a failure, never left
\* pending, so a single-round-trip handler eventually returns a payload.
C19_RequestsComplete == Completes /\ TimedOutReturns

C19_Witness ==
  /\ TimedOut /\ pc = "done" /\ payload.kind = "text" /\ payload.text # <<>>

Finished(slot) == slot.pc \in {"done", "thrown"}

\* two finished invocations of the same tool with the same arguments that
\* were given the same outcomes ended the same way
SameInputsSameResult ==
  (Finished(Slot) /\ Finished(other) /\ other.op = op /\ other.args = args
     /\ other.received = received) =>
    other.payload = payload /\ other.pc = pc

\* a step leaves the other invocation alone unless it is the switch, and
\* never touches the client's configuration once the server is up
NoInterference ==
  /\ stage = "serving" => config' = config
  /\ (other' # other) => (other' = Slot /\ Slot' = other)
  /\ SameInputsSameResult'

\* C20: concurrent invocations do not interfere.  Under any interleaving the
\* payload of an invocation depends only on its own arguments and on the
\* outcomes of its own requests, and the client's configuration is never
\* modified after start-up.
C20_NoInterference == [][NoInterference]_vars

C20_Witness ==
  /\ Finished(Slot) /\ Finished(other) /\ op = "decompile_function"
  /\ other.op = op /\ other.args = args /\ other.received = received
  /\ Len(received) = 2 /\ received[1] # received[2]

Blank(c) == c \in {" ", "\n", "\t", "\r"}

\* t is s without its leading and trailing whitespace
IsTrimOf(t, s) ==
  \E i \in 0..Len(s), j \in 0..Len(s) :
    /\ i + j <= Len(s)
    /\ \A k \in 1..i : Blank(s[k])
    /\ \A k \in (Len(s) - j + 1)..Len(s) : Blank(s[k])
    /\ t = SubSeq(s, i + 1, Len(s) - j)
    /\ t # <<>> => ~Blank(t[1]) /\ ~Blank(t[Len(t)])

\* C21: post never raises.  On a 2xx response it returns the response text
\* without leading and trailing whitespace; on a non-2xx response or a
\* network failure it returns a formatted error string.
C21_PostNeverRaises ==
  op = "post" =>
    /\ pc # "thrown"
    /\ pc = "done" =>
         /\ ret.c = "return"
         /\ IF response.k = "response" /\ response.status >= 200
               /\ response.status < 300
            THEN IsTrimOf(ret.v, response.data.v)
            ELSE IsErrorString(ret.v)

C21_Witness ==
  /\ op = "post" /\ pc = "done" /\ response.k = "response" /\ response.status = 200
  /\ Len(response.data.v) = 6 /\ ret.v = <<"a", " ", "b">>

Answered200 == response.k = "response" /\ response.status = 200

\* the remote has no platform to report: the list is missing, null or empty
NoPlatforms(d) ==
  \/ d = Arr(<<>>)
  \/ /\ d.t = "object" /\ "error" \notin DOMAIN d.v
     /\ "platforms" \in DOMAIN d.v => d.v.platforms \in {Null, Arr(<<>>)}

BeginsWithError(text) ==
  text # <<>> /\ text[1] \in {"Error", "Error: ", "Error ", "Error: no response"}

EmptyOrLabeled(text) == text \in {<<>>, <<"(no platforms)">>}

\* C22: a query that finds nothing is answered with an empty or labeled
\* payload and never with an error: get_comment and get_function_comment
\* turn an empty body into an empty text, list_platforms turns an answer
\* without platforms into "(no platforms)" or an empty text.
C22_NothingFoundIsNoError ==
  pc \in {"done", "thrown"} /\ Answered200 =>
    /\ op \in {"get_comment", "get_function_comment"} /\ response.data = Str(<<>>)
         => pc = "done" /\ payload.text = <<>>
    /\ op = "list_platforms" /\ NoPlatforms(response.data)
         => pc = "done" /\ EmptyOrLabeled(payload.text)
              /\ ~BeginsWithError(payload.text)

C22_Witness ==
  /\ op = "list_platforms" /\ pc = "done" /\ Answered200
  /\ response.data = Obj([platforms |-> Arr(<<>>)]) /\ payload.text = <<>>

OptionalFields ==
  [rename_multi_variables |-> {"mapping_json", "pairs", "renames_json"},
   make_function_at |-> {"platform"},
   list_strings_filter |-> {"offset", "count", "filter"}]

\* C23 as claimed: every optional argument has a schema default, so the
\* handler of rename_multi_variables, make_function_at or list_strings_filter
\* never finds undefined in an optional field.
C23_NoUndefinedObserved ==
  op \in DOMAIN OptionalFields =>
    \A k \in OptionalFields[op] : args[k] # Undef

CarriesUndefined(req) == \E k \in DOMAIN req.params : req.params[k] = Undef

\* C23: offset and count, which have schema defaults, are never undefined in
\* the handler.  mapping_json, pairs, renames_json, platform and filter have
\* none and may be undefined there; the handlers then leave the key out of
\* the request (platform, the rename alternatives) or send "" (filter), so
\* that no request carries undefined.
C23_UndefinedNeverForwarded ==
  op \in DOMAIN OptionalFields =>
    /\ \A i \in 1..Len(sent) : ~CarriesUndefined(sent[i])
    /\ op = "list_strings_filter" =>
         /\ args.offset # Undef /\ args.count # Undef
         /\ args.filter = Undef => sent[1].params.filter = Str(<<>>)
    /\ op = "make_function_at" /\ args.platform = Undef =>
         "platform" \notin DOMAIN sent[1].params
    /\ op = "rename_multi_variables" =>
         /\ args.renames_json = Undef /\ sent # <<>> =>
              "renames" \notin DOMAIN sent[1].params
         /\ args.mapping_json = Undef /\ sent # <<>> =>
              "mapping" \notin DOMAIN sent[1].params
         /\ args.pairs = Undef /\ sent # <<>> => "pairs" \notin DOMAIN sent[1].params

C23_Witness ==
  /\ op = "list_strings_filter" /\ pc = "done" /\ args.filter = Undef
  /\ sent[1].params = [offset |-> Num(0), limit |-> Num(100), filter |-> Str(<<>>)]

Aggregating == op = "list_all_strings"
Returned == pc \in {"done", "thrown"}

\* C24: against a remote holding a finite data set the aggregation loop of
\* list_all_strings comes to an end for every batch_size, zero and negative
\* ones included.
C24_AggregationTerminates == Aggregating ~> Returned

\* the same for the positive batch sizes only
PositiveBatchTerminates ==
  (Aggregating /\ args.batch_size > 0) ~> Returned

\* a loop that does not advance: the request just answered is sent again
SameWindowAgain ==
  /\ Aggregating /\ Len(sent) = MaxFetches /\ response # NoOutcome
  /\ \A i \in 1..Len(sent) : sent[i] = sent[1]

OffsetOf(req) == req.params.offset.v
LimitOf(req) == req.params.limit.v

\* fetch number i asks for the window starting at (i-1) * batch_size
WindowsByRank ==
  \A i \in 1..Len(sent) :
    OffsetOf(sent[i]) = (i - 1) * args.batch_size /\ LimitOf(sent[i]) = args.batch_size

NoOffsetTwice ==
  \A i, j \in 1..Len(sent) : i # j => OffsetOf(sent[i]) # OffsetOf(sent[j])

\* C25: in list_all_strings fetch number i is issued with
\* offset = (i-1) * batch_size and limit = batch_size, and no offset is
\* fetched twice.
C25_OffsetsAdvance == Aggregating => WindowsByRank /\ NoOffsetTwice

\* the arithmetic alone
OffsetsFollowRank == Aggregating => WindowsByRank

AlternativeKeys == {"renames", "mapping", "pairs"}

\* the first alternative, in the order renames_json, mapping_json, pairs,
\* that holds a non-empty text
Picked ==
  IF Truthy(args.renames_json) THEN "renames"
  ELSE IF Truthy(args.mapping_json) THEN "mapping"
  ELSE IF Truthy(args.pairs) THEN "pairs"
  ELSE "none"

ArgumentOf(key) ==
  CASE key = "renames" -> "renames_json" [] key = "mapping" -> "mapping_json"
    [] OTHER -> "pairs"

PickedIsForwardable ==
  /\ Picked # "none"
  /\ Picked # "pairs" => IsJsonValue(Alternative(Picked).v)

\* C26: rename_multi_variables forwards at most one of the keys renames,
\* mapping and pairs.  Of several supplied alternatives it forwards the first
\* in the order renames_json, mapping_json, pairs; the others are left out of
\* the request and are not validated: they neither stop the request nor are
\* named in a validation error.
C26_OnePickedByPrecedence ==
  Renaming =>
    /\ \A i \in 1..Len(sent) :
         /\ Cardinality(DOMAIN sent[i].params \cap AlternativeKeys) <= 1
         /\ DOMAIN sent[i].params \cap AlternativeKeys = {Picked}
         /\ sent[i].params[Picked] = Alternative(Picked)
    /\ PickedIsForwardable => Len(sent) = 1
    /\ \A key \in AlternativeKeys \ {Picked} :
         payload # NotValidJsonPayload(ArgumentOf(key))

C26_Witness ==
  /\ Renaming /\ pc = "done" /\ Len(sent) = 1
  /\ Picked = "renames" /\ Truthy(args.mapping_json) /\ Truthy(args.pairs)
  /\ ~IsJsonValue(args.mapping_json.v)
  /\ DOMAIN sent[1].params \cap AlternativeKeys = {"renames"}

IdentifierKeys == {"address", "name", "functionName"}

\* C27: the request of a tool that takes a name or an address carries
\* exactly one identifier key, the address key or the tool's name key, and
\* its value is the identifier without leading and trailing whitespace.
C27_OneTrimmedIdentifierKey ==
  (op \in DualModeTools /\ OwnRequestSent) =>
    \E key \in {"address", NameKey} :
      /\ DOMAIN OwnParams \cap IdentifierKeys = {key}
      /\ OwnParams[key].t = "string"
      /\ IsTrimOf(OwnParams[key].v, Identifier)

C27_Witness ==
  /\ op = "get_stack_frame_vars" /\ OwnRequestSent
  /\ Identifier = <<" ", "m", "a", "i", "n", " ">>
  /\ OwnParams = [name |-> Str(MainName)]

====
